---- MODULE Spec2Model ----
(***************************************************************************)
(* SeaExplorer glider pipeline.  Five parts, each with its specification:  *)
(*   Spec        the unit-conversion stage (3_convert_all_units_csv.py)    *)
(*               and the renaming stage (4_rename_variables_csv.py), run   *)
(*               one after the other in one working directory;             *)
(*   SpecIngest  the ingestion (1_convert_raw_to_separate_csv.py) and the  *)
(*               merge (2_merge_mission_data_csv.py), run one after the    *)
(*               other;                                                    *)
(*   SpecDriver  the drivers execute_pipeline.py and                       *)
(*               workflow_completo_seaexplorer.py;                         *)
(*   SpecLegacy  pld/logs/convert_raw_to_csv.py, every raw file into one   *)
(*               CSV;                                                      *)
(*   SpecDir     the files of the working directory: what                  *)
(*               convert_all_units_csv and rename_variables_csv select and *)
(*               write over several runs, and what summarize_pipeline      *)
(*               finds.                                                    *)
(*                                                                         *)
(* A table is [cols |-> sequence of column names, rows |-> sequence of     *)
(* rows], a row being a sequence of cells aligned with cols.  A cell is    *)
(* record [k, v, d, rho]:                                                  *)
(*   k = "nan"   a missing value (NaN, NaT),                               *)
(*   k = "str"   a value read_csv could not parse as a number, kept as the *)
(*               string number v,                                          *)
(*   k = "num"   the number v/d (in lowest terms) divided by every density *)
(*               in the sequence rho.                                      *)
(* The gsw (TEOS-10) library is a black box: each of its functions is an   *)
(* uninterpreted constructor recording the arguments it was called with.   *)
(***************************************************************************)
EXTENDS Integers, Sequences, FiniteSets, TLC

VARIABLES
    pc,                  \* position in the two scripts
    files,               \* working directory: file name -> <<>> or <<content>>
    df,                  \* the in-memory DataFrame of the running script
    variables,           \* var_type -> identified column name ("" is None)
    conversions_applied, \* the list built by convert_all_units_csv
    oxygen_error,        \* convert_oxygen took its except branch (line 184)
    summary,             \* the final summary printed by convert_all_units_csv
    df_renamed,          \* rename_variables_csv: the renamed DataFrame
    loaded,              \* the table convert_all_units_csv read from its CSV
    \* the pipeline drivers
    driver,              \* which driver runs: execute_pipeline or workflow
    d_pc,                \* position in the driver
    d_i,                 \* the loop variable i of the driver
    scripts_present,     \* the steps whose script file exists
    started,             \* the steps handed to run_script, in order
    outcome,             \* step -> how the script of the step ended
    success_count,       \* execute_pipeline's success_count
    \* convert_raw_to_separate_csv and merge_csv_files
    i_pc,                \* position in the two scripts
    raw,                 \* pld/logs: raw file name -> its content
    filtered_files,      \* step 1: the sorted, filtered list of raw files
    i_idx,               \* the loop index of the running script (from 1)
    data,                \* step 1: what read_glider_raw_file last returned
    csv_separati,        \* csv_separati/: file number -> the CSV written
    conversion_log,      \* step 1: one entry per CSV written
    file_paths,          \* merge: the sorted list of valid CSV files
    merge_log,           \* merge: what the loop reported for each file
    all_dataframes,      \* merge: the tables read so far
    merged_file,         \* <<>> or <<the merged table written>>
    merge_metadata,      \* merge: <<>> or <<the metadata report written>>
    \* the working directory of convert_all_units_csv, rename_variables_csv
    \* and summarize_pipeline, file by file
    s_pc,                \* position in the three scripts
    cwd,                 \* CSV file name -> [big, mtime, n, by]
    clock,               \* the time of the file system
    csv_file,            \* <<>> or <<the file the running script selected>>
    output_file,         \* <<>> or <<the timestamped file the last run of
                         \* convert_all_units_csv wrote>>
    runs,                \* how many times convert_all_units_csv was started
    stato_passi,         \* <<>> or <<what summarize_pipeline reported>>
    \* pld/logs/convert_raw_to_csv.py
    l_pc,                \* position in the script
    pld_logs,            \* pld/logs: raw file name -> its content
    l_files,             \* raw_files: the list glob returned, then sorted
    l_i,                 \* the loop index (from 1)
    l_dataframes,        \* all_dataframes of convert_raw_to_csv
    combined_data        \* <<>> or <<the concatenated table>>

unit_vars == <<pc, files, df, variables, conversions_applied, oxygen_error,
               summary, df_renamed, loaded>>

driver_vars == <<driver, d_pc, d_i, scripts_present, started, outcome,
                 success_count>>

ingest_vars == <<i_pc, raw, filtered_files, i_idx, data, csv_separati,
                 conversion_log, file_paths, merge_log, all_dataframes,
                 merged_file, merge_metadata>>

dir_vars == <<s_pc, cwd, clock, csv_file, output_file, runs, stato_passi>>

legacy_vars == <<l_pc, pld_logs, l_files, l_i, l_dataframes, combined_data>>

vars == <<unit_vars, driver_vars, ingest_vars, dir_vars, legacy_vars>>

(***************************************************************************)
(* Bounds of the model.                                                    *)
(***************************************************************************)
MaxRows == 2

\* the largest number of raw files in pld/logs
MaxFiles == 3

\* the largest number of runs of convert_all_units_csv in one directory
MaxRuns == 2

(***************************************************************************)
(* Cells and exact rational arithmetic.                                    *)
(***************************************************************************)
Abs(n) == IF n < 0 THEN -n ELSE n

RECURSIVE GCD(_, _)
GCD(a, b) == IF b = 0 THEN a ELSE GCD(b, a % b)

NaN == [k |-> "nan", v |-> 0, d |-> 1, rho |-> <<>>]
Str(id) == [k |-> "str", v |-> id, d |-> 1, rho |-> <<>>]

\* the number n/m in lowest terms, divided by the densities in s
Rat(n, m, s) ==
    LET g == GCD(Abs(n), m)
    IN  IF n = 0 THEN [k |-> "num", v |-> 0, d |-> 1, rho |-> s]
        ELSE [k |-> "num", v |-> n \div g, d |-> m \div g, rho |-> s]

Num(n) == Rat(n, 1, <<>>)

notna(c) == c.k # "nan"

\* float multiplication by the constant n/m; NaN * x is NaN
Times(c, n, m) == IF c.k = "num" THEN Rat(c.v * n, c.d * m, c.rho) ELSE c

(***************************************************************************)
(* Tables.                                                                 *)
(***************************************************************************)
None == ""

HasColumn(t, name) == \E i \in 1..Len(t.cols) : t.cols[i] = name

ColIndex(t, name) == CHOOSE i \in 1..Len(t.cols) : t.cols[i] = name

\* df[name]: the column as a sequence of cells
Column(t, name) == [r \in 1..Len(t.rows) |-> t.rows[r][ColIndex(t, name)]]

\* df[name] = col
SetColumn(t, name, col) ==
    [t EXCEPT !.rows = [r \in 1..Len(t.rows) |->
                           [t.rows[r] EXCEPT ![ColIndex(t, name)] = col[r]]]]

\* series.notna().sum()
ValidCount(col) == Cardinality({r \in 1..Len(col) : notna(col[r])})

\* a column holding an unparsable entry is read as dtype object: every
\* non-missing entry of it is then a Python str
IsObject(col) == \E r \in 1..Len(col) : col[r].k = "str"

(***************************************************************************)
(* convert_turbidity, convert_chlorophyll, convert_conductivity,           *)
(* convert_coordinates.  Each yields [df |-> the table after the call,     *)
(* raised |-> whether the call raised].  The range report formats          *)
(* series.min() with a float format, which raises on a dtype-object column *)
(* before anything is assigned.                                            *)
(***************************************************************************)
Raised(t) == [df |-> t, raised |-> TRUE]
Returned(t) == [df |-> t, raised |-> FALSE]

\* mutant: the product is filled, df[turbidity_var].fillna(0) * 366.70
TurbidityScaled_fillna(col) ==
    [r \in 1..Len(col) |->
        IF col[r].k = "nan" THEN Num(0) ELSE Times(col[r], 3667, 10)]

\* mutant: df[turbidity_var] / 366.70
TurbidityScaled_divided(col) == [r \in 1..Len(col) |-> Times(col[r], 10, 3667)]

\* df[turbidity_var] * 366.70
TurbidityScaled(col) == [r \in 1..Len(col) |-> Times(col[r], 3667, 10)]

\* mutant: the column is coerced in place before the multiplication raises
convert_turbidity_coerced(t, turbidity_var) ==
    LET turbidity_data == Column(t, turbidity_var)
        coerced == [r \in 1..Len(turbidity_data) |->
                       IF turbidity_data[r].k = "str" THEN NaN
                       ELSE turbidity_data[r]]
    IN  IF ValidCount(turbidity_data) > 0
        THEN IF IsObject(turbidity_data)
             THEN Raised(SetColumn(t, turbidity_var, coerced))
             ELSE Returned(SetColumn(t, turbidity_var,
                                     TurbidityScaled(turbidity_data)))
        ELSE Returned(t)

convert_turbidity(t, turbidity_var) ==
    LET turbidity_data == Column(t, turbidity_var)
    IN  IF ValidCount(turbidity_data) > 0
        THEN IF IsObject(turbidity_data) THEN Raised(t)
             ELSE Returned(SetColumn(t, turbidity_var,
                                     TurbidityScaled(turbidity_data)))
        ELSE Returned(t)

\* mutant: the chlorophyll column rescaled as the other sensor columns are
convert_chlorophyll_scaled(t, chlorophyll_var) ==
    LET chlorophyll_data == Column(t, chlorophyll_var)
    IN  IF ValidCount(chlorophyll_data) > 0
        THEN IF IsObject(chlorophyll_data) THEN Raised(t)
             ELSE Returned(SetColumn(t, chlorophyll_var,
                      [r \in 1..Len(chlorophyll_data) |->
                          Times(chlorophyll_data[r], 1, 1000)]))
        ELSE Returned(t)

convert_chlorophyll(t, chlorophyll_var) ==
    LET chlorophyll_data == Column(t, chlorophyll_var)
    IN  IF ValidCount(chlorophyll_data) > 0 /\ IsObject(chlorophyll_data)
        THEN Raised(t)
        ELSE Returned(t)

\* df[conductivity_var] * 0.1
ConductivityScaled(col) == [r \in 1..Len(col) |-> Times(col[r], 1, 10)]

convert_conductivity(t, conductivity_var) ==
    LET conductivity_data == Column(t, conductivity_var)
    IN  IF ValidCount(conductivity_data) > 0
        THEN IF IsObject(conductivity_data) THEN Raised(t)
             ELSE Returned(SetColumn(t, conductivity_var,
                                     ConductivityScaled(conductivity_data)))
        ELSE Returned(t)

\* mutant: packed DDMM.MMMM to decimal degrees, the longitude made negative
ddmm_to_decimal(c, negate) ==
    IF c.k # "num" \/ c.v = 0 THEN c
    ELSE LET degrees == c.v \div (100 * c.d)
             n == 60 * degrees * c.d + (c.v - 100 * degrees * c.d)
         IN  Rat(IF negate THEN 0 - Abs(n) ELSE n, 60 * c.d, c.rho)

convert_coordinates_ddmm(t, latitude_var, longitude_var) ==
    LET conv(u, var, negate) ==
            IF var = None THEN u
            ELSE SetColumn(u, var, [r \in 1..Len(u.rows) |->
                     ddmm_to_decimal(Column(u, var)[r], negate)])
    IN  Returned(conv(conv(t, latitude_var, FALSE), longitude_var, TRUE))

convert_coordinates(t, latitude_var, longitude_var) ==
    LET bad(var) == /\ var # None
                    /\ ValidCount(Column(t, var)) > 0
                    /\ IsObject(Column(t, var))
    IN  IF bad(latitude_var) \/ bad(longitude_var) THEN Raised(t)
        ELSE Returned(t)

(***************************************************************************)
(* The gsw library, a black box: uninterpreted functions of their          *)
(* arguments.                                                              *)
(***************************************************************************)
SP_from_C(C, t, p) == [f |-> "SP_from_C", C |-> C, t |-> t, p |-> p]
SA_from_SP(SP, p, lon, lat) ==
    [f |-> "SA_from_SP", SP |-> SP, p |-> p, lon |-> lon, lat |-> lat]
CT_from_t(SA, t, p) == [f |-> "CT_from_t", SA |-> SA, t |-> t, p |-> p]
rho(SA, CT, p) == [f |-> "rho", SA |-> SA, CT |-> CT, p |-> p]

\* the density the chain of lines 167-170 gives for one row
Density(C, t, p, lon, lat) ==
    LET SP == SP_from_C(C, t, p)
        SA == SA_from_SP(SP, p, lon, lat)
        CT == CT_from_t(SA, t, p)
    IN  rho(SA, CT, p)

\* mutant: oxygen / 1000.0 / rho
OxygenPerKg_divided(oxygen, density) ==
    Rat(oxygen.v, oxygen.d * 1000, Append(oxygen.rho, density))

\* oxygen * 1000.0 / rho
OxygenPerKg(oxygen, density) ==
    Rat(oxygen.v * 1000, oxygen.d, Append(oxygen.rho, density))

(***************************************************************************)
(* series.mean(): the mean of the non-missing entries.                     *)
(***************************************************************************)
RECURSIVE SumRat(_, _)
SumRat(col, n) ==
    IF n = 0 THEN [v |-> 0, d |-> 1]
    ELSE LET s == SumRat(col, n - 1)
         IN  IF notna(col[n])
             THEN [v |-> s.v * col[n].d + col[n].v * s.d, d |-> s.d * col[n].d]
             ELSE s

Mean(col) ==
    LET s == SumRat(col, Len(col))
    IN  Rat(s.v, s.d * ValidCount(col), <<>>)

\* 27.8, -15.5 (Canarie)
DefaultLat == Rat(278, 10, <<>>)
DefaultLon == Rat(-155, 10, <<>>)

(***************************************************************************)
(* convert_oxygen.  lib_raises: the library raises on this call.  Yields   *)
(* [df, raised |-> the call raised to its caller, error |-> the except     *)
(* branch of line 184 was taken].                                          *)
(***************************************************************************)
\* mutant: the mask forgets the temperature
mask_complete_no_temp(oxygen_data, temp_data, cond_data, pres_data) ==
    [r \in 1..Len(oxygen_data) |->
        /\ notna(oxygen_data[r])
        /\ notna(cond_data[r])
        /\ notna(pres_data[r])]

mask_complete(oxygen_data, temp_data, cond_data, pres_data) ==
    [r \in 1..Len(oxygen_data) |->
        /\ notna(oxygen_data[r])
        /\ notna(temp_data[r])
        /\ notna(cond_data[r])
        /\ notna(pres_data[r])]

\* mutant: latitude and longitude exchanged
OxygenPosition_swapped(t, lat_var, lon_var) ==
    IF lat_var # None /\ lon_var # None
       /\ HasColumn(t, lat_var) /\ HasColumn(t, lon_var)
    THEN LET lat_data == Column(t, lat_var)
             lon_data == Column(t, lon_var)
             valid_coords ==
                 Cardinality({r \in 1..Len(lat_data) :
                                 notna(lat_data[r]) /\ notna(lon_data[r])})
         IN  IF valid_coords > 0
             THEN <<Mean(lon_data), Mean(lat_data)>>
             ELSE <<DefaultLon, DefaultLat>>
    ELSE <<DefaultLon, DefaultLat>>

\* lines 142-157: the position handed to gsw.SA_from_SP, <<lat, lon>>
OxygenPosition(t, lat_var, lon_var) ==
    IF lat_var # None /\ lon_var # None
       /\ HasColumn(t, lat_var) /\ HasColumn(t, lon_var)
    THEN LET lat_data == Column(t, lat_var)
             lon_data == Column(t, lon_var)
             valid_coords ==
                 Cardinality({r \in 1..Len(lat_data) :
                                 notna(lat_data[r]) /\ notna(lon_data[r])})
         IN  IF valid_coords > 0
             THEN <<Mean(lat_data), Mean(lon_data)>>
             ELSE <<DefaultLat, DefaultLon>>
    ELSE <<DefaultLat, DefaultLon>>

\* lines 161-177: the converted column
OxygenConverted(oxygen_data, temp_data, cond_data, pres_data, mask, pos) ==
    [r \in 1..Len(oxygen_data) |->
        IF mask[r]
        THEN OxygenPerKg(oxygen_data[r],
                         Density(cond_data[r], temp_data[r], pres_data[r],
                                 pos[2], pos[1]))
        ELSE oxygen_data[r]]

\* mutant: the column is updated in place row by row, so the first complete
\* row is already converted when the library raises
convert_oxygen_in_place(t, oxygen_var, temp_var, cond_var, pres_var, lat_var, lon_var, lib_raises) ==
    LET oxygen_data == Column(t, oxygen_var)
        temp_data == Column(t, temp_var)
        cond_data == Column(t, cond_var)
        pres_data == Column(t, pres_var)
        mask == mask_complete(oxygen_data, temp_data, cond_data, pres_data)
        complete == {r \in 1..Len(mask) : mask[r]}
        pos == OxygenPosition(t, lat_var, lon_var)
        converted == OxygenConverted(oxygen_data, temp_data, cond_data,
                                     pres_data, mask, pos)
        first == CHOOSE r \in complete : \A q \in complete : r <= q
    IN  IF complete = {}
        THEN [df |-> t, raised |-> FALSE, error |-> FALSE]
        ELSE IF lib_raises
        THEN [df |-> SetColumn(t, oxygen_var,
                               [oxygen_data EXCEPT ![first] = converted[first]]),
              raised |-> FALSE, error |-> TRUE]
        ELSE [df |-> SetColumn(t, oxygen_var, converted),
              raised |-> FALSE, error |-> FALSE]

convert_oxygen(t, oxygen_var, temp_var, cond_var, pres_var, lat_var, lon_var, lib_raises) ==
    LET oxygen_data == Column(t, oxygen_var)
        temp_data == Column(t, temp_var)
        cond_data == Column(t, cond_var)
        pres_data == Column(t, pres_var)
        mask == mask_complete(oxygen_data, temp_data, cond_data, pres_data)
        complete_count == Cardinality({r \in 1..Len(mask) : mask[r]})
        pos == OxygenPosition(t, lat_var, lon_var)
        \* an unparsable string among the selected values cannot be made a
        \* float by the library; a str oxygen value cannot be multiplied
        bad_value == \E r \in 1..Len(mask) :
                        /\ mask[r]
                        /\ \/ temp_data[r].k = "str"
                           \/ cond_data[r].k = "str"
                           \/ pres_data[r].k = "str"
                           \/ IsObject(oxygen_data)
    IN  IF complete_count = 0
        THEN [df |-> t, raised |-> FALSE, error |-> FALSE]
        ELSE IF lib_raises \/ bad_value
        THEN [df |-> t, raised |-> FALSE, error |-> TRUE]
        ELSE [df |-> SetColumn(t, oxygen_var,
                               OxygenConverted(oxygen_data, temp_data,
                                               cond_data, pres_data, mask, pos)),
              raised |-> FALSE, error |-> FALSE]

(***************************************************************************)
(* The inputs: the CSV file the unit-conversion stage selects.             *)
(***************************************************************************)
HNative == <<"PLD_REALTIMECLOCK", "NAV_LATITUDE", "NAV_LONGITUDE",
             "FLBBCD_CHL_SCALED", "FLBBCD_BB_700_SCALED",
             "LEGATO_CONDUCTIVITY", "LEGATO_TEMPERATURE", "LEGATO_PRESSURE",
             "LEGATO_CODA_DO">>
\* no navigation columns
HNoNav == <<"PLD_REALTIMECLOCK", "FLBBCD_BB_700_SCALED",
            "LEGATO_CONDUCTIVITY", "LEGATO_TEMPERATURE", "LEGATO_PRESSURE",
            "LEGATO_CODA_DO">>
\* no temperature: the oxygen conversion is skipped
HNoTemp == <<"PLD_REALTIMECLOCK", "NAV_LATITUDE", "FLBBCD_BB_700_SCALED",
             "LEGATO_CONDUCTIVITY", "LEGATO_CODA_DO", "source_file">>
\* a standard name next to its native counterpart
HMixed == <<"TIME", "PLD_REALTIMECLOCK", "DOXY", "LEGATO_CODA_DO",
            "LEGATO_CONDUCTIVITY", "LEGATO_TEMPERATURE", "LEGATO_PRESSURE">>
\* provenance columns only
HOther == <<"source_file", "file_number">>

Headers == {HNative, HNoNav, HNoTemp, HMixed, HOther}

\* the values a cell of each column takes in the model
Domain(name) ==
    CASE name \in {"PLD_REALTIMECLOCK", "TIME", "source_file"} -> {Str(1)}
      [] name = "file_number" -> {Num(1), Num(10)}
      [] name = "NAV_LATITUDE" -> {NaN, Num(0), Num(28), Num(2830)}
      [] name = "NAV_LONGITUDE" -> {NaN, Num(0), Num(-15), Num(1530)}
      [] name = "FLBBCD_CHL_SCALED" -> {NaN, Num(5)}
      [] name = "FLBBCD_BB_700_SCALED" -> {NaN, Num(3), Rat(1, 2, <<>>), Str(2)}
      [] name = "LEGATO_CONDUCTIVITY" -> {NaN, Num(0), Num(350), Str(2)}
      [] name = "LEGATO_TEMPERATURE" -> {NaN, Num(10)}
      [] name = "LEGATO_PRESSURE" -> {NaN, Num(100)}
      [] name \in {"LEGATO_CODA_DO", "DOXY"} -> {NaN, Num(200)}

\* the row of a header with every sensor value present
BaseValue(name) ==
    CASE name \in {"PLD_REALTIMECLOCK", "TIME", "source_file"} -> Str(1)
      [] name = "file_number" -> Num(1)
      [] name = "NAV_LATITUDE" -> Num(28)
      [] name = "NAV_LONGITUDE" -> Num(-15)
      [] name = "FLBBCD_CHL_SCALED" -> Num(5)
      [] name = "FLBBCD_BB_700_SCALED" -> Num(3)
      [] name = "LEGATO_CONDUCTIVITY" -> Num(350)
      [] name = "LEGATO_TEMPERATURE" -> Num(10)
      [] name = "LEGATO_PRESSURE" -> Num(100)
      [] name \in {"LEGATO_CODA_DO", "DOXY"} -> Num(200)

BaseRow(h) == [i \in 1..Len(h) |-> BaseValue(h[i])]

\* the rows of the model: the base row with at most one cell changed
RowsOf(h) ==
    {[BaseRow(h) EXCEPT ![i] = x] : <<i, x>> \in
        UNION {{<<j, y>> : y \in Domain(h[j])} : j \in 1..Len(h)}}

InputTables ==
    {[cols |-> h, rows |-> rs] :
        <<h, rs>> \in UNION {{<<g, qs>> :
            qs \in UNION {[1..n -> RowsOf(g)] : n \in 1..MaxRows}} :
                g \in Headers}}

(***************************************************************************)
(* convert_all_units_csv, block by block.                                  *)
(***************************************************************************)
variable_map ==
    [turbidity |-> <<"TURB", "TURBIDITY", "BACKSCATTER",
                     "FLBBCD_BB_700_SCALED", "FLBBCD_BB_700_NTU">>,
     chlorophyll |-> <<"CHLA", "CHLOROPHYLL", "CHL_A", "FLBBCD_CHL_SCALED">>,
     conductivity |-> <<"CNDC", "CONDUCTIVITY", "CTD_CONDUCTIVITY",
                        "LEGATO_CONDUCTIVITY">>,
     temperature |-> <<"TEMP", "TEMPERATURE", "CTD_TEMP",
                       "LEGATO_TEMPERATURE">>,
     pressure |-> <<"PRES", "PRESSURE", "CTD_PRESSURE", "LEGATO_PRESSURE">>,
     oxygen |-> <<"DOXY", "DISSOLVED_OXYGEN", "OXYGEN", "O2",
                  "LEGATO_CODA_DO">>,
     latitude |-> <<"LATITUDE", "NAV_LATITUDE">>,
     longitude |-> <<"LONGITUDE", "NAV_LONGITUDE">>]

\* the first possible name that is a column, or None
FirstPresent(possible_names, t) ==
    LET hits == {i \in 1..Len(possible_names) : HasColumn(t, possible_names[i])}
    IN  IF hits = {} THEN None
        ELSE possible_names[CHOOSE i \in hits : \A j \in hits : i <= j]

IdentifyVariables(t) ==
    [var_type \in DOMAIN variable_map |-> FirstPresent(variable_map[var_type], t)]

NoTable == [cols |-> <<>>, rows |-> <<>>]
NoVariables == [var_type \in DOMAIN variable_map |-> None]

TurbidityLabel == "Torbidita: m-1 sr-1 -> NTU"
ChlorophyllLabel == "Clorofilla: ug/L -> mg/m3"
ConductivityLabel == "Conduttivita: mS/cm -> S/m"
CoordinatesLabel == "Coordinate: Gradi decimali -> DMS"
OxygenLabel == "Ossigeno: umol/L -> umol/kg (TEOS-10)"

\* no driver runs
DriverIdle ==
    /\ driver = "none"
    /\ d_pc = "d_idle"
    /\ d_i = 0
    /\ scripts_present = {}
    /\ started = <<>>
    /\ outcome = [step \in 1..4 |-> "not_run"]
    /\ success_count = 0

\* neither convert_raw_to_separate_csv nor merge_csv_files runs
IngestIdle ==
    /\ i_pc = "i_idle"
    /\ raw = <<>>
    /\ filtered_files = <<>>
    /\ i_idx = 0
    /\ data = <<>>
    /\ csv_separati = <<>>
    /\ conversion_log = <<>>
    /\ file_paths = <<>>
    /\ merge_log = <<>>
    /\ all_dataframes = <<>>
    /\ merged_file = <<>>
    /\ merge_metadata = <<>>

\* the working directory is not looked at file by file
DirIdle ==
    /\ s_pc = "s_idle"
    /\ cwd = <<>>
    /\ clock = 0
    /\ csv_file = <<>>
    /\ output_file = <<>>
    /\ runs = 0
    /\ stato_passi = <<>>

\* convert_raw_to_csv does not run
LegacyIdle ==
    /\ l_pc = "l_idle"
    /\ pld_logs = <<>>
    /\ l_files = <<>>
    /\ l_i = 0
    /\ l_dataframes = <<>>
    /\ combined_data = <<>>

\* neither convert_all_units_csv nor rename_variables_csv runs
UnitIdle ==
    /\ pc = "idle"
    /\ files = [merged |-> <<>>, backup |-> <<>>, units_converted |-> <<>>,
                metadata |-> <<>>, renamed |-> <<>>]
    /\ df = NoTable
    /\ variables = NoVariables
    /\ conversions_applied = <<>>
    /\ oxygen_error = FALSE
    /\ summary = <<>>
    /\ df_renamed = NoTable
    /\ loaded = NoTable

Init ==
    /\ pc = "u_load"
    /\ \E t \in InputTables :
          files = [merged |-> <<t>>, backup |-> <<>>, units_converted |-> <<>>,
                   metadata |-> <<>>, renamed |-> <<>>]
    /\ df = NoTable
    /\ variables = NoVariables
    /\ conversions_applied = <<>>
    /\ oxygen_error = FALSE
    /\ summary = <<>>
    /\ df_renamed = NoTable
    /\ loaded = NoTable
    /\ DriverIdle
    /\ IngestIdle
    /\ DirIdle
    /\ LegacyIdle

\* lines 262-304: pd.read_csv and the identification of the variables
LoadCsv ==
    /\ pc = "u_load"
    /\ \E ok \in BOOLEAN :
          IF ok
          THEN /\ df' = files.merged[1]
               /\ loaded' = files.merged[1]
               /\ variables' = IdentifyVariables(files.merged[1])
               /\ pc' = "u_backup"
          ELSE /\ pc' = "u_aborted"
               /\ UNCHANGED <<df, loaded, variables>>
    /\ UNCHANGED <<files, conversions_applied, oxygen_error, summary, df_renamed>>
    /\ UNCHANGED <<driver_vars, ingest_vars, dir_vars, legacy_vars>>

\* mutant: a failed backup is only a warning
CreateBackup_unchecked ==
    /\ pc = "u_backup"
    /\ pc' = "u_turbidity"
    /\ \E ok \in BOOLEAN :
          files' = IF ok THEN [files EXCEPT !.backup = <<df>>] ELSE files
    /\ UNCHANGED <<df, variables, conversions_applied, oxygen_error, summary,
                   df_renamed, loaded>>
    /\ UNCHANGED <<driver_vars, ingest_vars, dir_vars, legacy_vars>>

\* lines 306-314
CreateBackup ==
    /\ pc = "u_backup"
    /\ \E ok \in BOOLEAN :
          IF ok
          THEN /\ files' = [files EXCEPT !.backup = <<df>>]
               /\ pc' = "u_turbidity"
          ELSE /\ pc' = "u_aborted"
               /\ UNCHANGED files
    /\ UNCHANGED <<df, variables, conversions_applied, oxygen_error, summary,
                   df_renamed, loaded>>
    /\ UNCHANGED <<driver_vars, ingest_vars, dir_vars, legacy_vars>>

\* one guarded conversion block of lines 322-352: res is what the transform
\* yields, label what is appended when it returned
Block(here, next, var_present, res, label) ==
    /\ pc = here
    /\ pc' = next
    /\ IF var_present
       THEN /\ df' = res.df
            /\ conversions_applied' =
                   IF res.raised THEN conversions_applied
                   ELSE Append(conversions_applied, label)
       ELSE UNCHANGED <<df, conversions_applied>>
    /\ UNCHANGED <<files, variables, oxygen_error, summary, df_renamed, loaded>>
    /\ UNCHANGED <<driver_vars, ingest_vars, dir_vars, legacy_vars>>

Turbidity ==
    Block("u_turbidity", "u_chlorophyll", variables.turbidity # None,
          convert_turbidity(df, variables.turbidity), TurbidityLabel)

Chlorophyll ==
    Block("u_chlorophyll", "u_conductivity", variables.chlorophyll # None,
          convert_chlorophyll(df, variables.chlorophyll), ChlorophyllLabel)

Conductivity ==
    Block("u_conductivity", "u_coordinates", variables.conductivity # None,
          convert_conductivity(df, variables.conductivity), ConductivityLabel)

Coordinates ==
    Block("u_coordinates", "u_oxygen",
          variables.latitude # None \/ variables.longitude # None,
          convert_coordinates(df, variables.latitude, variables.longitude),
          CoordinatesLabel)

\* lines 354-374
OxygenVariablesPresent ==
    \A var \in {"oxygen", "temperature", "conductivity", "pressure"} :
        variables[var] # None

Oxygen ==
    /\ pc = "u_oxygen"
    /\ pc' = "u_save"
    /\ IF OxygenVariablesPresent
       THEN \E lib_raises \in BOOLEAN :
               LET res == convert_oxygen(df, variables.oxygen,
                                         variables.temperature,
                                         variables.conductivity,
                                         variables.pressure,
                                         variables.latitude,
                                         variables.longitude, lib_raises)
               IN  /\ df' = res.df
                   /\ oxygen_error' = res.error
                   /\ conversions_applied' =
                          IF res.raised THEN conversions_applied
                          ELSE Append(conversions_applied, OxygenLabel)
       ELSE UNCHANGED <<df, oxygen_error, conversions_applied>>
    /\ UNCHANGED <<files, variables, summary, df_renamed, loaded>>
    /\ UNCHANGED <<driver_vars, ingest_vars, dir_vars, legacy_vars>>

\* lines 376-395: the timestamped file, then the original file; fails_at is
\* the to_csv call that raises (0: none)
SaveCsv ==
    /\ pc = "u_save"
    /\ \E fails_at \in 0..2 :
          /\ files' = [files EXCEPT
                         !.units_converted =
                             IF fails_at = 1 THEN @ ELSE <<df>>,
                         !.merged = IF fails_at = 0 THEN <<df>> ELSE @]
          /\ pc' = IF fails_at = 0 THEN "u_metadata" ELSE "u_aborted"
    /\ UNCHANGED <<df, variables, conversions_applied, oxygen_error, summary,
                   df_renamed, loaded>>
    /\ UNCHANGED <<driver_vars, ingest_vars, dir_vars, legacy_vars>>

\* lines 397-426: a failure here is only a warning
WriteMetadata ==
    /\ pc = "u_metadata"
    /\ pc' = "u_summary"
    /\ \E ok \in BOOLEAN :
          files' = IF ok THEN [files EXCEPT !.metadata = <<conversions_applied>>]
                   ELSE files
    /\ UNCHANGED <<df, variables, conversions_applied, oxygen_error, summary,
                   df_renamed, loaded>>
    /\ UNCHANGED <<driver_vars, ingest_vars, dir_vars, legacy_vars>>

\* lines 487-494
FinalSummary ==
    /\ pc = "u_summary"
    /\ pc' = "u_done"
    /\ summary' = <<conversions_applied>>
    /\ UNCHANGED <<files, df, variables, conversions_applied, oxygen_error,
                   df_renamed, loaded>>
    /\ UNCHANGED <<driver_vars, ingest_vars, dir_vars, legacy_vars>>

(***************************************************************************)
(* rename_variables_csv.                                                   *)
(***************************************************************************)
variable_mapping ==
    [PLD_REALTIMECLOCK |-> "TIME",
     LEGATO_CODA_DO |-> "DOXY",
     FLBBCD_BB_700_SCALED |-> "TURB",
     FLBBCD_CHL_SCALED |-> "CHLA",
     LEGATO_CONDUCTIVITY |-> "CNDC",
     LEGATO_TEMPERATURE |-> "TEMP",
     LEGATO_PRESSURE |-> "PRES",
     NAV_DEPTH |-> "DEPTH",
     NAV_LATITUDE |-> "LATITUDE",
     NAV_LONGITUDE |-> "LONGITUDE"]

\* lines 120-132
present_vars(t) == {old_name \in DOMAIN variable_mapping : HasColumn(t, old_name)}
missing_vars(t) == DOMAIN variable_mapping \ present_vars(t)

\* mutant: df.rename(columns=rename_dict).dropna()
RenameColumns_dropna(t, rename_dict) ==
    [cols |-> [i \in 1..Len(t.cols) |->
                  IF t.cols[i] \in DOMAIN rename_dict
                  THEN rename_dict[t.cols[i]]
                  ELSE t.cols[i]],
     rows |-> SelectSeq(t.rows,
                        LAMBDA row : \A i \in 1..Len(row) : notna(row[i]))]

\* mutant: df[list(rename_dict)].rename(columns=rename_dict)
RenameColumns_mapped_only(t, rename_dict) ==
    LET keep == {i \in 1..Len(t.cols) : t.cols[i] \in DOMAIN rename_dict}
        Pick(s) == [j \in 1..Cardinality(keep) |->
                       s[CHOOSE i \in keep :
                            Cardinality({k \in keep : k <= i}) = j]]
    IN  [cols |-> [j \in 1..Cardinality(keep) |->
                      rename_dict[Pick(t.cols)[j]]],
         rows |-> [r \in 1..Len(t.rows) |-> Pick(t.rows[r])]]

\* lines 147-150: df.rename(columns=rename_dict)
RenameColumns(t, rename_dict) ==
    [t EXCEPT !.cols = [i \in 1..Len(t.cols) |->
                           IF t.cols[i] \in DOMAIN rename_dict
                           THEN rename_dict[t.cols[i]]
                           ELSE t.cols[i]]]

rename_dict(t) == [old_name \in present_vars(t) |-> variable_mapping[old_name]]

\* lines 42-67: the files the selection keeps (backup, sample, metadata and
\* renamed files are excluded); which of them is the most recent is not
\* modelled
RenameCandidates == {f \in {"merged", "units_converted"} : files[f] # <<>>}

\* lines 97-114
RenameLoad ==
    /\ pc \in {"u_done", "u_aborted"}
    /\ \E f \in RenameCandidates, ok \in BOOLEAN :
          IF ok
          THEN /\ df' = files[f][1]
               /\ pc' = "r_check"
          ELSE /\ pc' = "r_aborted"
               /\ UNCHANGED df
    /\ UNCHANGED <<files, variables, conversions_applied, oxygen_error, summary,
                   df_renamed, loaded>>
    /\ UNCHANGED <<driver_vars, ingest_vars, dir_vars, legacy_vars>>

\* mutant: any absent native column stops the stage
RenameCheck_strict ==
    /\ pc = "r_check"
    /\ pc' = IF missing_vars(df) # {} THEN "r_no_variables" ELSE "r_apply"
    /\ UNCHANGED <<files, df, variables, conversions_applied, oxygen_error,
                   summary, df_renamed, loaded>>
    /\ UNCHANGED <<driver_vars, ingest_vars, dir_vars, legacy_vars>>

\* lines 116-140
RenameCheck ==
    /\ pc = "r_check"
    /\ pc' = IF present_vars(df) = {} THEN "r_no_variables" ELSE "r_apply"
    /\ UNCHANGED <<files, df, variables, conversions_applied, oxygen_error,
                   summary, df_renamed, loaded>>
    /\ UNCHANGED <<driver_vars, ingest_vars, dir_vars, legacy_vars>>

\* lines 142-169
RenameApply ==
    /\ pc = "r_apply"
    /\ df_renamed' = RenameColumns(df, rename_dict(df))
    /\ pc' = "r_save"
    /\ UNCHANGED <<files, df, variables, conversions_applied, oxygen_error,
                   summary, loaded>>
    /\ UNCHANGED <<driver_vars, ingest_vars, dir_vars, legacy_vars>>

\* lines 171-191
RenameSave ==
    /\ pc = "r_save"
    /\ \E ok \in BOOLEAN :
          IF ok
          THEN /\ files' = [files EXCEPT !.renamed = <<df_renamed>>]
               /\ pc' = "r_done"
          ELSE /\ pc' = "r_aborted"
               /\ UNCHANGED files
    /\ UNCHANGED <<df, variables, conversions_applied, oxygen_error, summary,
                   df_renamed, loaded>>
    /\ UNCHANGED <<driver_vars, ingest_vars, dir_vars, legacy_vars>>

Next ==
    \/ LoadCsv
    \/ CreateBackup
    \/ Turbidity
    \/ Chlorophyll
    \/ Conductivity
    \/ Coordinates
    \/ Oxygen
    \/ SaveCsv
    \/ WriteMetadata
    \/ FinalSummary
    \/ RenameLoad
    \/ RenameCheck
    \/ RenameApply
    \/ RenameSave

Spec == Init /\ [][Next]_vars

(***************************************************************************)
(* The pipeline drivers: execute_pipeline.main and                         *)
(* workflow_completo_seaexplorer.workflow_completo.  The scripts of the    *)
(* four steps are run as subprocesses; how a script ends is one of         *)
(*   "completed"  it did its work and wrote its output, return code 0,     *)
(*   "aborted"    its function returned early (no input file, load, backup *)
(*                or save failure, nothing to merge); the __main__ block   *)
(*                then ends normally, return code 0,                       *)
(*   "crashed"    an uncaught exception, return code 1,                    *)
(*   "not_found"  the interpreter cannot open the script, return code 2,   *)
(*   "timeout"    subprocess.run raised TimeoutExpired (timeout=300).      *)
(***************************************************************************)
pipeline_steps == <<"convert_raw_to_separate_csv.py", "merge_mission_data_csv.py", "convert_all_units_csv.py", "rename_variables_csv.py">>

Steps == 1..Len(pipeline_steps)

\* how the subprocess of a step can end under each driver
ScriptOutcomes(step) ==
    IF step \notin scripts_present THEN {"not_found"}
    ELSE IF driver = "execute_pipeline"
         THEN {"completed", "aborted", "crashed", "timeout"}
         ELSE {"completed", "aborted", "crashed"}

\* run_script: True exactly when the return code is 0
run_script(o) == o \in {"completed", "aborted"}

InitDriver ==
    /\ driver \in {"execute_pipeline", "workflow_completo"}
    /\ d_pc = IF driver = "execute_pipeline" THEN "d_confirm" ELSE "d_loop"
    /\ d_i = 1
    /\ scripts_present \in SUBSET Steps
    /\ started = <<>>
    /\ outcome = [step \in Steps |-> "not_run"]
    /\ success_count = 0
    /\ UnitIdle
    /\ IngestIdle
    /\ DirIdle
    /\ LegacyIdle

\* execute_pipeline, lines 111-115: the confirmation prompt
Confirm ==
    /\ d_pc = "d_confirm"
    /\ \E response_s \in BOOLEAN :
          d_pc' = IF response_s THEN "d_loop" ELSE "d_cancelled"
    /\ UNCHANGED <<driver, d_i, scripts_present, started, outcome,
                   success_count>>
    /\ UNCHANGED <<unit_vars, ingest_vars, dir_vars, legacy_vars>>

\* execute_pipeline, lines 122-124: a script that does not exist is
\* reported and the loop continues with the next step
SkipMissingScript ==
    /\ driver = "execute_pipeline"
    /\ d_pc = "d_loop"
    /\ d_i \in Steps
    /\ d_i \notin scripts_present
    /\ d_i' = d_i + 1
    /\ UNCHANGED <<driver, d_pc, scripts_present, started, outcome,
                   success_count>>
    /\ UNCHANGED <<unit_vars, ingest_vars, dir_vars, legacy_vars>>

\* execute_pipeline, lines 126-132, and workflow_completo, lines 88-93
RunScript ==
    /\ d_pc = "d_loop"
    /\ d_i \in Steps
    /\ driver = "execute_pipeline" => d_i \in scripts_present
    /\ \E o \in ScriptOutcomes(d_i) :
          /\ started' = Append(started, d_i)
          /\ outcome' = [outcome EXCEPT ![d_i] = o]
          /\ IF run_script(o)
             THEN /\ success_count' = success_count + 1
                  /\ d_i' = d_i + 1
                  /\ UNCHANGED d_pc
             ELSE /\ d_pc' = IF driver = "execute_pipeline" THEN "d_summary"
                             ELSE "d_failure"
                  /\ UNCHANGED <<success_count, d_i>>
    /\ UNCHANGED <<driver, scripts_present>>
    /\ UNCHANGED <<unit_vars, ingest_vars, dir_vars, legacy_vars>>

\* execute_pipeline, lines 134-147, and workflow_completo, lines 100-112
EndOfRun ==
    /\ \/ d_pc = "d_summary"
       \/ d_pc = "d_loop" /\ d_i \notin Steps
    /\ d_pc' = IF success_count = Len(pipeline_steps) THEN "d_success"
               ELSE "d_failure"
    /\ UNCHANGED <<driver, d_i, scripts_present, started, outcome,
                   success_count>>
    /\ UNCHANGED <<unit_vars, ingest_vars, dir_vars, legacy_vars>>

NextDriver ==
    \/ Confirm
    \/ SkipMissingScript
    \/ RunScript
    \/ EndOfRun

SpecDriver == InitDriver /\ [][NextDriver]_vars

(***************************************************************************)
(* Ingestion: convert_raw_to_separate_csv (step 1) and merge_csv_files     *)
(* (step 2), run one after the other in a fresh working directory.         *)
(*                                                                         *)
(* A raw file is named by its suffix, the text after the last "raw." of    *)
(* its path, a sequence of characters: 0..9 is a digit, 10 any other       *)
(* character.  A per-file CSV is named by the digits NNN of its name       *)
(* mission_NNN.csv.                                                        *)
(***************************************************************************)
isdigit(s) == Len(s) > 0 /\ \A i \in DOMAIN s : s[i] < 10

\* int() of a string of digits
RECURSIVE int(_)
int(s) ==
    IF s = <<>> THEN 0 ELSE 10 * int(SubSeq(s, 1, Len(s) - 1)) + s[Len(s)]

\* step 1, lines 42-58
extract_number(file_path) == IF isdigit(file_path) THEN int(file_path) ELSE 0

\* the digits NNN of f"mission_{file_num:03d}.csv", for file_num below 1000
csv_filename(file_num) ==
    <<(file_num \div 100) % 10, (file_num \div 10) % 10, file_num % 10>>

\* merge, lines 15-35: the first pattern, mission_(\d+)\.csv$, matches
extract_file_number(filename) == int(filename)

\* s before t in the order of strings
RECURSIVE LexLess(_, _)
LexLess(s, t) ==
    IF t = <<>> THEN FALSE
    ELSE IF s = <<>> THEN TRUE
    ELSE IF s[1] # t[1] THEN s[1] < t[1]
    ELSE LexLess(Tail(s), Tail(t))

\* list.sort(key=...), a stable sort: key[i] is the key of s[i], and s[i]
\* goes after the elements of smaller key and those of equal key before it
Sorted(s, key) ==
    LET rank(i) == 1 + Cardinality({j \in DOMAIN s :
                        \/ key[j] < key[i]
                        \/ key[j] = key[i] /\ j < i})
    IN  [p \in DOMAIN s |-> s[CHOOSE i \in DOMAIN s : rank(i) = p]]

\* mutant: raw_files.sort(), the order of the names
SortRawFiles_lexical(raw_files) ==
    Sorted(raw_files, [i \in DOMAIN raw_files |->
        Cardinality({j \in DOMAIN raw_files :
                        LexLess(raw_files[j], raw_files[i])})])

\* step 1, line 87: raw_files.sort(key=extract_number)
SortRawFiles(raw_files) ==
    Sorted(raw_files, [i \in DOMAIN raw_files |-> extract_number(raw_files[i])])

\* step 1, lines 90-94: only the files numbered 1 to 183
FilterRange(raw_files) ==
    SelectSeq(raw_files, LAMBDA f : 1 <= extract_number(f) /\ extract_number(f) <= 183)

\* merge, line 143: file_paths.sort(key=extract_file_number)
SortCsvFiles(paths) ==
    Sorted(paths, [i \in DOMAIN paths |-> extract_file_number(paths[i])])

\* the orders in which glob can list the files of set S
Orders(S) ==
    {o \in [1..Cardinality(S) -> S] : \A i, j \in DOMAIN o : o[i] = o[j] => i = j}

(***************************************************************************)
(* The content of a raw file: readable or not, its header, its rows as     *)
(* read_csv yields them, and kb, the size in KB of the CSV its table is    *)
(* written to.  The timestamp text of a row is the string Str(n); the      *)
(* strings of ParsableStamps match '%d/%m/%Y %H:%M:%S.%f' and denote the   *)
(* time n, any other string does not match.                                *)
(***************************************************************************)
RawTimeHeader == <<"PLD_REALTIMECLOCK", "LEGATO_PRESSURE">>
RawPlainHeader == <<"NAV_RESOURCE", "LEGATO_PRESSURE">>

ParsableStamps == 1..3

RawFile(cols, rows, kb) == [readable |-> TRUE, cols |-> cols, rows |-> rows, kb |-> kb]

RawContents ==
    {[readable |-> FALSE, cols |-> <<>>, rows |-> <<>>, kb |-> 0],
     RawFile(RawTimeHeader, <<<<Str(1), Num(1)>>>>, 500),
     RawFile(RawTimeHeader, <<<<Str(1), Num(1)>>>>, 5),
     RawFile(RawTimeHeader, <<<<Str(3), Num(1)>>, <<Str(2), Num(2)>>>>, 500),
     RawFile(RawTimeHeader, <<<<Str(99), NaN>>, <<Str(2), Num(2)>>>>, 500),
     RawFile(RawTimeHeader, <<<<NaN, NaN>>>>, 1),
     RawFile(RawPlainHeader, <<<<Str(3), Num(1)>>, <<Str(2), Num(2)>>>>, 500)}

\* the names a raw file can have: raw.2, raw.02, raw.10, raw.200, raw.1x
RawNames == {<<2>>, <<0, 2>>, <<1, 0>>, <<2, 0, 0>>, <<1, 10>>}

\* data.dropna(how='all')
dropna_all(t) ==
    [t EXCEPT !.rows = SelectSeq(t.rows,
                           LAMBDA row : \E i \in DOMAIN row : notna(row[i]))]

\* pd.to_datetime(..., errors='coerce') on one value
to_datetime(c) ==
    IF c.k = "str" /\ c.v \in ParsableStamps THEN Num(c.v) ELSE NaN

\* step 1, lines 14-40: <<>> is None
read_glider_raw_file(content) ==
    IF ~content.readable THEN <<>>
    ELSE LET d == dropna_all([cols |-> content.cols, rows |-> content.rows])
         IN  <<IF HasColumn(d, "PLD_REALTIMECLOCK")
               THEN SetColumn(d, "PLD_REALTIMECLOCK",
                        [r \in 1..Len(d.rows) |->
                            to_datetime(Column(d, "PLD_REALTIMECLOCK")[r])])
               ELSE d>>

\* merge, lines 182-191: the table of a CSV with its provenance columns;
\* row is the position of the row in its CSV
Frame(csv, name, i) ==
    [cols |-> csv.cols,
     rows |-> [r \in 1..Len(csv.rows) |->
                  [cells |-> csv.rows[r], source_file |-> name,
                   file_number |-> extract_file_number(name),
                   merge_position |-> i, row |-> r]]]

\* the columns of pd.concat(..., sort=False): in order of first appearance
RECURSIVE ConcatCols(_)
ConcatCols(frames) ==
    IF frames = <<>> THEN <<>>
    ELSE LET before == ConcatCols(SubSeq(frames, 1, Len(frames) - 1))
             last == frames[Len(frames)].cols
         IN  before \o SelectSeq(last,
                           LAMBDA c : \A k \in DOMAIN before : before[k] # c)

\* a row of frame f on the columns cols, NaN where f has no such column
Align(f, rowrec, cols) ==
    [rowrec EXCEPT !.cells =
        [c \in 1..Len(cols) |->
            IF HasColumn(f, cols[c]) THEN rowrec.cells[ColIndex(f, cols[c])]
            ELSE NaN]]

RECURSIVE ConcatRows(_, _)
ConcatRows(frames, cols) ==
    IF frames = <<>> THEN <<>>
    ELSE LET f == frames[Len(frames)]
         IN  ConcatRows(SubSeq(frames, 1, Len(frames) - 1), cols)
                 \o [r \in 1..Len(f.rows) |-> Align(f, f.rows[r], cols)]

\* merge, line 217: pd.concat(all_dataframes, ignore_index=True, sort=False)
concat(frames) ==
    [cols |-> ConcatCols(frames), rows |-> ConcatRows(frames, ConcatCols(frames))]

\* merge, lines 222-228
time_columns == <<"time", "timestamp", "PLD_REALTIMECLOCK", "TIME">>
sort_column(t) == FirstPresent(time_columns, t)

\* the elements of a set of numbers in ascending order
Ascending(S) ==
    [p \in 1..Cardinality(S) |->
        CHOOSE i \in S : Cardinality({j \in S : j <= i}) = p]

\* the orders of the row numbers in S that are ascending in key
RECURSIVE AscendingOrders(_, _)
AscendingOrders(S, key) ==
    IF S = {} THEN {<<>>}
    ELSE UNION {{<<i>> \o rest : rest \in AscendingOrders(S \ {i}, key)} :
                   i \in {x \in S : \A y \in S : key[x] <= key[y]}}

\* mutant: no sort
sort_values_unsorted(t, by) == {t}

\* merge, line 232: merged_df.sort_values(by).reset_index(drop=True).  The
\* default sort is not stable: rows with equal keys come out in any order;
\* the rows with a missing key come last, in their order
sort_values(t, by) ==
    LET col == Column([cols |-> t.cols, rows |-> [r \in DOMAIN t.rows |-> t.rows[r].cells]], by)
        valid == {r \in DOMAIN t.rows : notna(col[r])}
        key == [r \in valid |-> col[r].v]
        missing == Ascending(DOMAIN t.rows \ valid)
    IN  {[t EXCEPT !.rows = [p \in DOMAIN t.rows |-> t.rows[(o \o missing)[p]]]] :
            o \in AscendingOrders(valid, key)}

\* pld/logs holds at most MaxFiles raw files
InitIngest ==
    /\ i_pc = "s1_start"
    /\ \E S \in SUBSET RawNames :
          /\ Cardinality(S) <= MaxFiles
          /\ raw \in [S -> RawContents]
    /\ filtered_files = <<>>
    /\ i_idx = 0
    /\ data = <<>>
    /\ csv_separati = <<>>
    /\ conversion_log = <<>>
    /\ file_paths = <<>>
    /\ merge_log = <<>>
    /\ all_dataframes = <<>>
    /\ merged_file = <<>>
    /\ merge_metadata = <<>>
    /\ UnitIdle
    /\ DriverIdle
    /\ DirIdle
    /\ LegacyIdle

\* step 1, lines 73-98: glob, sort, filter; min() of an empty list raises
ListRawFiles ==
    /\ i_pc = "s1_start"
    /\ IF DOMAIN raw = {}
       THEN /\ i_pc' = "s1_no_files"
            /\ UNCHANGED <<filtered_files, i_idx>>
       ELSE \E raw_files \in Orders(DOMAIN raw) :
               LET filtered == FilterRange(SortRawFiles(raw_files))
               IN  /\ filtered_files' = filtered
                   /\ i_idx' = 1
                   /\ i_pc' = IF filtered = <<>> THEN "s1_crashed"
                              ELSE "s1_loop"
    /\ UNCHANGED <<raw, data, csv_separati, conversion_log, file_paths,
                   merge_log, all_dataframes, merged_file,
                   merge_metadata>>
    /\ UNCHANGED <<unit_vars, driver_vars, dir_vars, legacy_vars>>

\* f with x stored under name
Store(f, name, x) ==
    [n \in DOMAIN f \cup {name} |-> IF n = name THEN x ELSE f[n]]

\* step 1, lines 113-149: one iteration of the loop; saved is whether
\* to_csv returned
ConvertFile ==
    /\ i_pc = "s1_loop"
    /\ i_idx <= Len(filtered_files)
    /\ LET file_path == filtered_files[i_idx]
           file_num == extract_number(file_path)
           d == read_glider_raw_file(raw[file_path])
       IN  /\ data' = d
           /\ IF d # <<>> /\ Len(d[1].rows) > 0
              THEN \E saved \in BOOLEAN :
                      IF saved
                      THEN /\ csv_separati' =
                                 Store(csv_separati, csv_filename(file_num),
                                       [cols |-> d[1].cols, rows |-> d[1].rows,
                                        source_file |-> file_path,
                                        file_number |-> file_num,
                                        kb |-> raw[file_path].kb])
                           /\ conversion_log' =
                                 Append(conversion_log,
                                        [number |-> file_num,
                                         raw_file |-> file_path,
                                         csv_file |-> csv_filename(file_num),
                                         rows |-> Len(d[1].rows)])
                      ELSE UNCHANGED <<csv_separati, conversion_log>>
              ELSE UNCHANGED <<csv_separati, conversion_log>>
    /\ i_idx' = i_idx + 1
    /\ UNCHANGED <<i_pc, raw, filtered_files, file_paths, merge_log,
                   all_dataframes, merged_file,
                   merge_metadata>>
    /\ UNCHANGED <<unit_vars, driver_vars, dir_vars, legacy_vars>>

\* step 1, lines 155-158 and the report after them
ReportConversion ==
    /\ i_pc = "s1_loop"
    /\ i_idx > Len(filtered_files)
    /\ i_pc' = IF conversion_log = <<>> THEN "s1_nothing" ELSE "s1_done"
    /\ UNCHANGED <<raw, filtered_files, i_idx, data, csv_separati,
                   conversion_log, file_paths, merge_log, all_dataframes,
                   merged_file,
                   merge_metadata>>
    /\ UNCHANGED <<unit_vars, driver_vars, dir_vars, legacy_vars>>

\* merge, lines 113-137: between 0.01 MB and 100 MB (mission_NNN.csv holds
\* none of the excluded keywords)
ValidSize(kb) == 100 * kb >= 1024 /\ kb <= 102400

\* merge, lines 84-143: glob, filter, sort; the working directory holds no
\* other CSV than those of csv_separati
ListCsvFiles ==
    /\ i_pc \in {"s1_no_files", "s1_crashed", "s1_nothing", "s1_done"}
    /\ LET valid_files ==
               {f \in DOMAIN csv_separati : ValidSize(csv_separati[f].kb)}
       IN  IF valid_files = {}
           THEN /\ i_pc' = "m_failed"
                /\ UNCHANGED <<file_paths, i_idx>>
           ELSE \E paths \in Orders(valid_files) :
                   /\ file_paths' = SortCsvFiles(paths)
                   /\ i_idx' = 1
                   /\ i_pc' = "m_loop"
    /\ UNCHANGED <<raw, filtered_files, data, csv_separati, conversion_log,
                   merge_log, all_dataframes, merged_file,
                   merge_metadata>>
    /\ UNCHANGED <<unit_vars, driver_vars, dir_vars, legacy_vars>>

\* merge, lines 173-205: one iteration of the loop; readable is whether
\* pd.read_csv returned
ReadCsv ==
    /\ i_pc = "m_loop"
    /\ i_idx <= Len(file_paths)
    /\ LET file_path == file_paths[i_idx]
           csv == csv_separati[file_path]
       IN  \E readable \in BOOLEAN :
              IF ~readable
              THEN /\ merge_log' = Append(merge_log, [file |-> file_path, status |-> "error"])
                   /\ UNCHANGED all_dataframes
              ELSE IF Len(csv.rows) = 0
              THEN /\ merge_log' = Append(merge_log, [file |-> file_path, status |-> "empty"])
                   /\ UNCHANGED all_dataframes
              ELSE /\ merge_log' = Append(merge_log, [file |-> file_path, status |-> "read"])
                   /\ all_dataframes' =
                          Append(all_dataframes, Frame(csv, file_path, i_idx))
    /\ i_idx' = i_idx + 1
    /\ UNCHANGED <<i_pc, raw, filtered_files, data, csv_separati,
                   conversion_log, file_paths, merged_file,
                   merge_metadata>>
    /\ UNCHANGED <<unit_vars, driver_vars, dir_vars, legacy_vars>>

\* merge, lines 316-346: the counts and the list of processed source files
\* of the metadata file
metadata(paths, successful_files) ==
    [processed |-> successful_files,
     of |-> Len(paths),
     sources |-> SubSeq(paths, 1, successful_files)]

\* merge, lines 207-257 and 313-350: concatenate, sort by the time column
\* if there is one, write, then write the metadata file; saved and written
\* are whether the two writes returned (the second failing is a warning)
ConcatAndSave ==
    /\ i_pc = "m_loop"
    /\ i_idx > Len(file_paths)
    /\ IF all_dataframes = <<>>
       THEN /\ i_pc' = "m_failed"
            /\ UNCHANGED <<merged_file, merge_metadata>>
       ELSE LET merged_df == concat(all_dataframes)
                by == sort_column(merged_df)
                successful_files == Len(all_dataframes)
            IN  \E out \in (IF by = None THEN {merged_df}
                            ELSE sort_values(merged_df, by)) :
                   \E saved, written \in BOOLEAN :
                      IF saved
                      THEN /\ merged_file' = <<out>>
                           /\ merge_metadata' =
                                  IF written
                                  THEN <<metadata(file_paths, successful_files)>>
                                  ELSE <<>>
                           /\ i_pc' = "m_done"
                      ELSE /\ i_pc' = "m_failed"
                           /\ written
                           /\ UNCHANGED <<merged_file, merge_metadata>>
    /\ UNCHANGED <<raw, filtered_files, i_idx, data, csv_separati,
                   conversion_log, file_paths, merge_log, all_dataframes>>
    /\ UNCHANGED <<unit_vars, driver_vars, dir_vars, legacy_vars>>

NextIngest ==
    \/ ListRawFiles
    \/ ConvertFile
    \/ ReportConversion
    \/ ListCsvFiles
    \/ ReadCsv
    \/ ConcatAndSave

SpecIngest == InitIngest /\ [][NextIngest]_vars

(***************************************************************************)
(* pld/logs/convert_raw_to_csv.py: every raw file into one CSV.  A file    *)
(* name is the sequence of its dot-separated parts, a part being a string  *)
(* of character codes (0..9 the digits, 10 any other character).           *)
(***************************************************************************)
\* sea074.<mission>.gli.sub.<seq>.pld1.raw.1
PldName(mission, seq) ==
    <<<<10, 10, 10, 0, 7, 4>>, mission, <<10, 10, 10>>, <<10, 10, 10>>, seq,
      <<10, 10, 10, 1>>, <<10, 10, 10>>, <<1>>>>

\* sea074.67.gli.sub.2, .10 and .123, and sea074.66.gli.sub.124
PldNames ==
    {PldName(<<6, 7>>, <<2>>), PldName(<<6, 7>>, <<1, 0>>),
     PldName(<<6, 7>>, <<1, 2, 3>>), PldName(<<6, 6>>, <<1, 2, 4>>)}

PldContents ==
    {[readable |-> FALSE, cols |-> <<>>, rows |-> <<>>, kb |-> 0],
     RawFile(RawTimeHeader, <<<<Str(1), Num(1)>>>>, 500),
     RawFile(RawPlainHeader, <<<<Str(3), Num(1)>>, <<Str(2), Num(2)>>>>, 500)}

\* lines 70-79: the first part that is all digits, 0 if there is none
RECURSIVE first_digit_part(_)
first_digit_part(parts) ==
    IF parts = <<>> THEN 0
    ELSE IF isdigit(Head(parts)) THEN int(Head(parts))
    ELSE first_digit_part(Tail(parts))

\* line 81: raw_files.sort(key=extract_number)
SortPldFiles(names) ==
    Sorted(names, [i \in DOMAIN names |-> first_digit_part(names[i])])

InitLegacy ==
    /\ l_pc = "l_start"
    /\ \E S \in SUBSET PldNames :
          /\ Cardinality(S) <= MaxFiles
          /\ pld_logs \in [S -> PldContents]
    /\ l_files = <<>>
    /\ l_i = 0
    /\ l_dataframes = <<>>
    /\ combined_data = <<>>
    /\ UnitIdle
    /\ DriverIdle
    /\ IngestIdle
    /\ DirIdle

\* lines 53-81: glob, then the sort
GlobAndSort ==
    /\ l_pc = "l_start"
    /\ IF DOMAIN pld_logs = {}
       THEN /\ l_pc' = "l_no_files"
            /\ UNCHANGED <<l_files, l_i>>
       ELSE \E glob \in Orders(DOMAIN pld_logs) :
               /\ l_files' = SortPldFiles(glob)
               /\ l_i' = 1
               /\ l_pc' = "l_loop"
    /\ UNCHANGED <<pld_logs, l_dataframes, combined_data>>
    /\ UNCHANGED <<unit_vars, driver_vars, ingest_vars, dir_vars>>

\* lines 97-117: one iteration of the loop
ReadRawFile ==
    /\ l_pc = "l_loop"
    /\ l_i <= Len(l_files)
    /\ LET file_path == l_files[l_i]
           d == read_glider_raw_file(pld_logs[file_path])
       IN  l_dataframes' =
              IF d # <<>> /\ Len(d[1].rows) > 0
              THEN Append(l_dataframes,
                          [cols |-> d[1].cols,
                           rows |-> [r \in 1..Len(d[1].rows) |->
                                        [cells |-> d[1].rows[r],
                                         source_file |-> file_path,
                                         row |-> r]]])
              ELSE l_dataframes
    /\ l_i' = l_i + 1
    /\ UNCHANGED <<l_pc, pld_logs, l_files, combined_data>>
    /\ UNCHANGED <<unit_vars, driver_vars, ingest_vars, dir_vars>>

\* lines 119-167: the concatenation, in the order of the loop, and the
\* write of the CSV; saved is whether to_csv returned
Concatenate ==
    /\ l_pc = "l_loop"
    /\ l_i > Len(l_files)
    /\ IF l_dataframes = <<>>
       THEN /\ l_pc' = "l_nothing"
            /\ UNCHANGED combined_data
       ELSE /\ combined_data' = <<concat(l_dataframes)>>
            /\ \E saved \in BOOLEAN :
                  l_pc' = IF saved THEN "l_done" ELSE "l_failed"
    /\ UNCHANGED <<pld_logs, l_files, l_i, l_dataframes>>
    /\ UNCHANGED <<unit_vars, driver_vars, ingest_vars, dir_vars>>

NextLegacy ==
    \/ GlobAndSort
    \/ ReadRawFile
    \/ Concatenate

SpecLegacy == InitLegacy /\ [][NextLegacy]_vars

(***************************************************************************)
(* The working directory of convert_all_units_csv, rename_variables_csv    *)
(* and summarize_pipeline, file by file.  A file name is the sequence of   *)
(* the parts that '_' joins, without its '.csv'; a file is                 *)
(*   [big    its size is above 1 MB,                                       *)
(*    mtime  the time of its last write,                                   *)
(*    n      how many times the unit conversions were applied to its data, *)
(*    by     the script that last wrote it].                               *)
(* Every write advances the clock, so a file written later is newer.       *)
(***************************************************************************)
\* strftime("%Y%m%d_%H%M%S") at time c
Stamps == <<"t01", "t02", "t03", "t04", "t05", "t06", "t07", "t08", "t09",
            "t10", "t11", "t12", "t13", "t14", "t15", "t16", "t17", "t18">>
strftime(c) == Stamps[c]

\* the keywords of the two selections that a part of a lower-cased name holds
Keywords(part) ==
    CASE part = "complete" -> {"complete"}
      [] part = "merged" -> {"merged"}
      [] part = "units_converted" -> {"units_converted"}
      [] part = "backup_before_conversions" -> {"backup"}
      [] part = "renamed" -> {"renamed"}
      [] OTHER -> {}

\* keyword in file.lower()
InName(keyword, file) == \E i \in DOMAIN file : keyword \in Keywords(file[i])

\* merge, line 241: mission_complete_merged_{timestamp}.csv
MergedName == <<"mission", "complete", "merged", strftime(2)>>
\* a CSV file of the directory that no step of the pipeline wrote
OtherName == <<"glider", "data">>

\* script 3, lines 229-240, and script 4, lines 46-55: the files that hold
\* none of the excluded keywords and are larger than 1 MB
all_valid_files(excluded) ==
    {file \in DOMAIN cwd :
        /\ \A keyword \in excluded : ~InName(keyword, file)
        /\ cwd[file].big}

\* script 3, lines 243-251, and script 4, lines 58-67: the list
\* priority + others sorted by modification time, most recent first, and its
\* first entry; the sort is stable, so of the most recent files one of the
\* priority list comes first, and among those the first that glob returned
most_recent(priority, others) ==
    LET all == priority \cup others
        newest == {f \in all : \A g \in all : cwd[g].mtime <= cwd[f].mtime}
    IN  IF newest \cap priority # {} THEN newest \cap priority ELSE newest

units_excluded == {"backup", "sample", "metadata", "units_converted", "renamed"}
rename_excluded == {"backup", "sample", "metadata", "renamed"}

\* script 3, line 238
merged_files ==
    {file \in all_valid_files(units_excluded) :
        InName("merged", file) /\ InName("complete", file)}

\* script 4, line 52
units_converted_files ==
    {file \in all_valid_files(rename_excluded) : InName("units_converted", file)}

InitDir ==
    /\ s_pc = "s_start"
    /\ \E big \in BOOLEAN, other \in 0..3 :
          cwd = IF other = 0
                THEN [file \in {MergedName} |->
                         [big |-> big, mtime |-> 2, n |-> 0, by |-> "merge"]]
                ELSE [file \in {MergedName, OtherName} |->
                         IF file = MergedName
                         THEN [big |-> big, mtime |-> 2, n |-> 0, by |-> "merge"]
                         ELSE [big |-> TRUE, mtime |-> other, n |-> 0,
                               by |-> "other"]]
    /\ clock = 3
    /\ csv_file = <<>>
    /\ output_file = <<>>
    /\ runs = 0
    /\ stato_passi = <<>>
    /\ UnitIdle
    /\ DriverIdle
    /\ IngestIdle
    /\ LegacyIdle

\* script 3, lines 204-252: a run of convert_all_units_csv starts and
\* selects its input, or finds none and returns
SelectUnitsInput ==
    /\ s_pc \in {"s_start", "u_end"}
    /\ runs < MaxRuns
    /\ runs' = runs + 1
    /\ output_file' = <<>>
    /\ LET valid == all_valid_files(units_excluded)
       IN  IF valid = {}
           THEN /\ csv_file' = <<>>
                /\ s_pc' = "u_end"
           ELSE \E file \in most_recent(merged_files, valid \ merged_files) :
                   /\ csv_file' = <<file>>
                   /\ s_pc' = "u_selected"
    /\ UNCHANGED <<cwd, clock, stato_passi>>
    /\ UNCHANGED <<unit_vars, driver_vars, ingest_vars, legacy_vars>>

\* script 3, lines 262-395: load, backup (line 309), conversions, the
\* timestamped file (line 384), then the selected file itself (line 390);
\* fails_at is the step that makes the script return (0: none, 1: the load,
\* 2: the backup, 3: the first write, 4: the second write); the sample file
\* of line 447 holds the keyword sample and is never a candidate
ConvertAndSave ==
    /\ s_pc = "u_selected"
    /\ \E fails_at \in 0..4 :
          LET file == csv_file[1]
              backup_file == file \o <<"backup_before_conversions">>
              out == file \o <<"units_converted", strftime(clock + 2)>>
              converted == [cwd[file] EXCEPT !.n = @ + 1, !.by = "units"]
              d1 == IF fails_at \in {1, 2} THEN cwd
                    ELSE Store(cwd, backup_file,
                               [cwd[file] EXCEPT !.mtime = clock + 1,
                                                 !.by = "units"])
              d2 == IF fails_at \in {0, 4}
                    THEN Store(d1, out, [converted EXCEPT !.mtime = clock + 2])
                    ELSE d1
              d3 == IF fails_at = 0
                    THEN Store(d2, file, [converted EXCEPT !.mtime = clock + 3])
                    ELSE d2
          IN  /\ cwd' = d3
              /\ clock' = CASE fails_at \in {1, 2} -> clock
                            [] fails_at = 3 -> clock + 1
                            [] fails_at = 4 -> clock + 2
                            [] OTHER -> clock + 3
              /\ output_file' = IF fails_at \in {0, 4} THEN <<out>> ELSE <<>>
    /\ s_pc' = "u_end"
    /\ UNCHANGED <<csv_file, runs, stato_passi>>
    /\ UNCHANGED <<unit_vars, driver_vars, ingest_vars, legacy_vars>>

\* script 4, lines 22-67: rename_variables_csv starts and selects its input,
\* or finds none and returns
SelectRenameInput ==
    /\ s_pc = "u_end"
    /\ LET valid == all_valid_files(rename_excluded)
       IN  IF valid = {}
           THEN /\ csv_file' = <<>>
                /\ s_pc' = "r_end"
           ELSE \E file \in most_recent(units_converted_files,
                                        valid \ units_converted_files) :
                   /\ csv_file' = <<file>>
                   /\ s_pc' = "r_selected"
    /\ UNCHANGED <<cwd, clock, output_file, runs, stato_passi>>
    /\ UNCHANGED <<unit_vars, driver_vars, ingest_vars, legacy_vars>>

\* script 4, lines 97-191: load, rename, and the write of
\* script4_{base_name}_renamed_{timestamp}.csv (line 181); ok is whether
\* the script got as far as the write and the write returned
RenameAndSave ==
    /\ s_pc = "r_selected"
    /\ \E ok \in BOOLEAN :
          IF ok
          THEN /\ cwd' = Store(cwd,
                               <<"script4">> \o csv_file[1]
                                   \o <<"renamed", strftime(clock + 1)>>,
                               [cwd[csv_file[1]] EXCEPT !.mtime = clock + 1,
                                                        !.by = "rename"])
               /\ clock' = clock + 1
          ELSE UNCHANGED <<cwd, clock>>
    /\ s_pc' = "r_end"
    /\ UNCHANGED <<csv_file, output_file, runs, stato_passi>>
    /\ UNCHANGED <<unit_vars, driver_vars, ingest_vars, legacy_vars>>

\* file, with '.csv', matches the glob pattern
\* mission_complete_merged_*<tail>.csv, tail the parts the name ends with
Matches(file, tail) ==
    /\ Len(file) >= 4 + Len(tail)
    /\ SubSeq(file, 1, 3) = <<"mission", "complete", "merged">>
    /\ SubSeq(file, Len(file) - Len(tail) + 1, Len(file)) = tail

\* summarize_pipeline, lines 45-75: the three globs of the working
\* directory and the state of steps 2, 3 and 4 derived from them
analizza_stato_pipeline ==
    LET file_merged == {file \in DOMAIN cwd : Matches(file, <<>>)}
        file_units ==
            {file \in DOMAIN cwd : Matches(file, <<"units_converted">>)}
        file_renamed ==
            {file \in DOMAIN cwd :
                Matches(file, <<"units_converted", "renamed">>)}
    IN  [passo2 |-> file_merged # {},
         passo3 |-> file_units # {},
         passo4 |-> file_renamed # {}]

\* summarize_pipeline run after a step of the pipeline has ended
Summarize ==
    /\ s_pc \in {"u_end", "r_end"}
    /\ stato_passi' = <<analizza_stato_pipeline>>
    /\ s_pc' = "summarized"
    /\ UNCHANGED <<cwd, clock, csv_file, output_file, runs>>
    /\ UNCHANGED <<unit_vars, driver_vars, ingest_vars, legacy_vars>>

NextDir ==
    \/ SelectUnitsInput
    \/ ConvertAndSave
    \/ SelectRenameInput
    \/ RenameAndSave
    \/ Summarize

SpecDir == InitDir /\ [][NextDir]_vars

(***************************************************************************)
(* Vocabulary of the properties.                                           *)
(***************************************************************************)
Cell(t, r, name) == t.rows[r][ColIndex(t, name)]

Rows == 1..Len(loaded.rows)

\* convert_all_units_csv is past its oxygen block and still the running script
AfterOxygen == pc \in {"u_save", "u_metadata", "u_summary", "u_done"}

\* convert_all_units_csv has written both output files
Saved == pc \in {"u_metadata", "u_summary", "u_done"}

\* convert_oxygen was called in this run
OxygenCalled == AfterOxygen /\ OxygenVariablesPresent

\* the oxygen value of row r was changed by the run
OxygenChanged(r) == Cell(df, r, variables.oxygen) # Cell(loaded, r, variables.oxygen)

\* var_type is identified and row r of the loaded table holds a number there
Present(var_type, r) ==
    /\ variables[var_type] # None
    /\ Cell(loaded, r, variables[var_type]).k = "num"

\* new is old multiplied by n/m (a missing or unparsable old is kept)
IsTimes(new, old, n, m) ==
    /\ new.k = old.k
    /\ new.rho = old.rho
    /\ IF old.k = "num" THEN new.v * old.d * m = old.v * n * new.d
       ELSE new = old

\* term is the density of the chain SP -> SA -> CT -> rho on these inputs
IsDensityOf(term, C, t, p, lon, lat) ==
    /\ term.f = "rho" /\ term.p = p
    /\ term.SA.f = "SA_from_SP" /\ term.SA.p = p
    /\ term.SA.lon = lon /\ term.SA.lat = lat
    /\ term.SA.SP.f = "SP_from_C"
    /\ term.SA.SP.C = C /\ term.SA.SP.t = t /\ term.SA.SP.p = p
    /\ term.CT.f = "CT_from_t"
    /\ term.CT.SA = term.SA /\ term.CT.t = t /\ term.CT.p = p

\* new is old * 1000 / term
IsPerKg(new, old, term) ==
    /\ new.k = "num"
    /\ new.v * old.d = 1000 * old.v * new.d
    /\ new.rho = Append(old.rho, term)

\* the density the converted oxygen value of row r was divided by
UsedDensity(r) ==
    LET c == Cell(df, r, variables.oxygen) IN c.rho[Len(c.rho)]

RECURSIVE SumV(_, _)
SumV(col, n) ==
    IF n = 0 THEN 0
    ELSE SumV(col, n - 1) + (IF col[n].k = "num" THEN col[n].v ELSE 0)

\* q is the mean of the numbers of a column of whole numbers
IsMeanOf(q, col) ==
    /\ q.k = "num" /\ q.rho = <<>>
    /\ q.v * ValidCount(col) = q.d * SumV(col, Len(col))

\* some row of the loaded table has both a latitude and a longitude
HasPosition ==
    /\ variables.latitude # None /\ variables.longitude # None
    /\ \E r \in Rows : Present("latitude", r) /\ Present("longitude", r)

\* lat, lon is the position of the whole table: the means of the latitude
\* and longitude columns, or 27.8, -15.5 when no row has both
IsTablePosition(lat, lon) ==
    IF HasPosition
    THEN /\ IsMeanOf(lat, Column(loaded, variables.latitude))
         /\ IsMeanOf(lon, Column(loaded, variables.longitude))
    ELSE /\ lat.k = "num" /\ lat.v * 10 = 278 * lat.d
         /\ lon.k = "num" /\ lon.v * 10 = (-155) * lon.d

C2_SalinityFromNativeConductivity ==
    OxygenCalled /\ ~oxygen_error =>
        \A r \in Rows :
            OxygenChanged(r) =>
                UsedDensity(r).SA.SP.C = Cell(loaded, r, variables.conductivity)

(***************************************************************************)
(* C3 (as stated): every converted oxygen value is original * 1000 / rho,  *)
(* rho the density of the chain on that same row's conductivity,           *)
(* temperature, pressure, longitude and latitude.  Refuted: the position   *)
(* is the table's, not the row's.                                          *)
(***************************************************************************)
C3_PerKgWithRowInputs ==
    OxygenCalled /\ ~oxygen_error =>
        \A r \in Rows :
            OxygenChanged(r) =>
                /\ variables.latitude # None /\ variables.longitude # None
                /\ IsPerKg(Cell(df, r, variables.oxygen),
                           Cell(loaded, r, variables.oxygen), UsedDensity(r))
                /\ IsDensityOf(UsedDensity(r),
                               Cell(df, r, variables.conductivity),
                               Cell(df, r, variables.temperature),
                               Cell(df, r, variables.pressure),
                               Cell(df, r, variables.longitude),
                               Cell(df, r, variables.latitude))

(***************************************************************************)
(* C3 (amended): every converted oxygen value is original * 1000 / rho,    *)
(* rho the density of the chain SP -> SA -> CT -> rho on that row's        *)
(* temperature and pressure, its conductivity as the table holds it when   *)
(* convert_oxygen runs, and the position of the whole table.               *)
(***************************************************************************)
C3_PerKgWithTablePosition ==
    OxygenCalled /\ ~oxygen_error =>
        \A r \in Rows :
            OxygenChanged(r) =>
                /\ IsPerKg(Cell(df, r, variables.oxygen),
                           Cell(loaded, r, variables.oxygen), UsedDensity(r))
                /\ IsDensityOf(UsedDensity(r),
                               Cell(df, r, variables.conductivity),
                               Cell(df, r, variables.temperature),
                               Cell(df, r, variables.pressure),
                               UsedDensity(r).SA.lon, UsedDensity(r).SA.lat)
                /\ IsTablePosition(UsedDensity(r).SA.lat, UsedDensity(r).SA.lon)

\* a run that converted a row
C3_Witness ==
    /\ OxygenCalled /\ ~oxygen_error /\ pc = "u_done"
    /\ \E r \in Rows : OxygenChanged(r)

(***************************************************************************)
(* C4 (as stated): the position passed to the absolute-salinity step for a *)
(* converted row is that row's own longitude and latitude.  Refuted.       *)
(***************************************************************************)
C4_RowOwnPosition ==
    OxygenCalled /\ ~oxygen_error =>
        \A r \in Rows :
            OxygenChanged(r) =>
                /\ Present("latitude", r) /\ Present("longitude", r)
                /\ UsedDensity(r).SA.lat = Cell(loaded, r, variables.latitude)
                /\ UsedDensity(r).SA.lon = Cell(loaded, r, variables.longitude)

(***************************************************************************)
(* C4 (amended): the position passed to the absolute-salinity step is the  *)
(* same for every converted row: the mean latitude and mean longitude of   *)
(* the table, or 27.8, -15.5 when no row has both coordinates.             *)
(***************************************************************************)
C4_TablePosition ==
    OxygenCalled /\ ~oxygen_error =>
        \A r1, r2 \in Rows :
            OxygenChanged(r1) /\ OxygenChanged(r2) =>
                /\ UsedDensity(r1).SA.lat = UsedDensity(r2).SA.lat
                /\ UsedDensity(r1).SA.lon = UsedDensity(r2).SA.lon
                /\ IsTablePosition(UsedDensity(r1).SA.lat, UsedDensity(r1).SA.lon)

\* two converted rows at different latitudes
C4_Witness ==
    /\ OxygenCalled /\ ~oxygen_error /\ HasPosition
    /\ \E r1, r2 \in Rows :
          /\ OxygenChanged(r1) /\ OxygenChanged(r2)
          /\ Present("latitude", r1) /\ Present("latitude", r2)
          /\ Cell(loaded, r1, variables.latitude)
                # Cell(loaded, r2, variables.latitude)

(***************************************************************************)
(* C5: when the library raises during convert_oxygen the oxygen column is  *)
(* left exactly as loaded (no row converted), the turbidity and            *)
(* conductivity conversions already applied are kept, and                  *)
(* convert_all_units_csv goes on to write its output with that table.      *)
(***************************************************************************)
C5_LibraryFailureLeavesOxygenColumn ==
    OxygenCalled /\ oxygen_error =>
        /\ \A r \in Rows : ~OxygenChanged(r)
        /\ \A r \in Rows :
              /\ variables.turbidity # None /\ TurbidityLabel \in
                     {conversions_applied[i] : i \in DOMAIN conversions_applied}
                 => IsTimes(Cell(df, r, variables.turbidity),
                            Cell(loaded, r, variables.turbidity), 3667, 10)
              /\ ConductivityLabel \in
                     {conversions_applied[i] : i \in DOMAIN conversions_applied}
                 => IsTimes(Cell(df, r, variables.conductivity),
                            Cell(loaded, r, variables.conductivity), 1, 10)
        /\ Saved => files.units_converted = <<df>> /\ files.merged = <<df>>

\* the library raised on a table with a complete row, the turbidity had been
\* converted, and the output was written
C5_Witness ==
    /\ pc = "u_done" /\ OxygenCalled /\ oxygen_error
    /\ variables.turbidity # None
    /\ \E r \in Rows :
          /\ Cell(df, r, variables.turbidity) # Cell(loaded, r, variables.turbidity)
          /\ \A var \in {"oxygen", "temperature", "conductivity", "pressure"} :
                Cell(loaded, r, variables[var]).k = "num"
    /\ files.units_converted = <<df>>

(***************************************************************************)
(* C6: whenever convert_oxygen left the oxygen column unconverted because  *)
(* the library raised, the oxygen conversion is not recorded among the     *)
(* conversions applied (conversions_applied, the metadata file, the final  *)
(* summary).  Refuted: convert_oxygen swallows the exception and its       *)
(* caller appends the oxygen entry whenever the call returns.              *)
(***************************************************************************)
Listed(label, list) == \E i \in DOMAIN list : list[i] = label

C6_FailureNotRecordedAsApplied ==
    OxygenCalled /\ oxygen_error =>
        /\ ~Listed(OxygenLabel, conversions_applied)
        /\ files.metadata # <<>> => ~Listed(OxygenLabel, files.metadata[1])
        /\ summary # <<>> => ~Listed(OxygenLabel, summary[1])

(***************************************************************************)
(* C7: every value missing in the loaded table is still missing after the  *)
(* five transforms have run, and a transform whose columns hold only       *)
(* numbers and missing values returns without raising.                     *)
(***************************************************************************)
Numeric(name) == name # None => ~IsObject(Column(loaded, name))

C7_MissingStaysMissing ==
    AfterOxygen =>
        /\ \A r \in Rows : \A i \in 1..Len(loaded.cols) :
              loaded.rows[r][i].k = "nan" => df.rows[r][i].k = "nan"
        /\ variables.turbidity # None /\ Numeric(variables.turbidity)
              => Listed(TurbidityLabel, conversions_applied)
        /\ variables.chlorophyll # None /\ Numeric(variables.chlorophyll)
              => Listed(ChlorophyllLabel, conversions_applied)
        /\ variables.conductivity # None /\ Numeric(variables.conductivity)
              => Listed(ConductivityLabel, conversions_applied)
        /\ (variables.latitude # None \/ variables.longitude # None)
              /\ Numeric(variables.latitude) /\ Numeric(variables.longitude)
              => Listed(CoordinatesLabel, conversions_applied)
        /\ OxygenVariablesPresent => Listed(OxygenLabel, conversions_applied)

\* a turbidity column with a missing and a converted value, and a missing
\* oxygen value next to a converted one
C7_Witness ==
    /\ pc = "u_done" /\ OxygenCalled /\ variables.turbidity # None
    /\ \E r1, r2 \in Rows :
          /\ Cell(loaded, r1, variables.turbidity).k = "nan"
          /\ Cell(df, r1, variables.turbidity).k = "nan"
          /\ Cell(df, r2, variables.turbidity) # Cell(loaded, r2, variables.turbidity)
    /\ \E r1, r2 \in Rows :
          /\ Cell(loaded, r1, variables.oxygen).k = "nan"
          /\ OxygenChanged(r2)

(***************************************************************************)
(* C8: the unit-conversion stage and the renaming stage write a table with *)
(* exactly as many rows as the table they loaded, so the renamed table has *)
(* as many rows as the dataset the pipeline started from.                  *)
(***************************************************************************)
C8_RowCountPreserved ==
    /\ files.units_converted # <<>> =>
          /\ Len(files.units_converted[1].rows) = Len(loaded.rows)
          /\ Len(files.merged[1].rows) = Len(loaded.rows)
    /\ files.renamed # <<>> =>
          /\ Len(files.renamed[1].rows) = Len(df.rows)
          /\ Len(files.renamed[1].rows) = Len(files.merged[1].rows)

\* both stages have written, from a table of more than one row holding a
\* missing value
C8_Witness ==
    /\ pc = "r_done"
    /\ files.units_converted # <<>> /\ files.renamed # <<>>
    /\ Len(files.renamed[1].rows) > 1
    /\ \E r \in 1..Len(df.rows) : \E i \in 1..Len(df.cols) :
          df.rows[r][i].k = "nan"

(***************************************************************************)
(* C9: renaming never writes a table with two columns of the same name:    *)
(* either all output column names are distinct or nothing is written.      *)
(* Refuted: df.rename is applied unchecked, so a table holding TIME next   *)
(* to PLD_REALTIMECLOCK is written with two TIME columns.                  *)
(***************************************************************************)
DistinctColumns(t) ==
    \A i, j \in 1..Len(t.cols) : t.cols[i] = t.cols[j] => i = j

C9_NoDuplicateOutputColumns ==
    files.renamed # <<>> => DistinctColumns(files.renamed[1])

(***************************************************************************)
(* C10: an unparsable entry of a sensor column becomes missing and the     *)
(* column's conversion is still applied to every parsable value of the     *)
(* column.  Refuted: nothing coerces the column; its conversion raises, is *)
(* caught, and the whole column is left as loaded.                         *)
(***************************************************************************)
C10_UnparsableBecomesMissing ==
    AfterOxygen /\ variables.turbidity # None =>
        \A r \in Rows :
            LET old == Cell(loaded, r, variables.turbidity)
                new == Cell(df, r, variables.turbidity)
            IN  /\ old.k = "str" => new.k = "nan"
                /\ old.k = "num" => IsTimes(new, old, 3667, 10)

(***************************************************************************)
(* C11: the unit-conversion stage writes its output files only if no       *)
(* individual conversion raised.  Refuted as stated: every conversion      *)
(* block catches its own exception and the stage goes on to save.          *)
(***************************************************************************)
\* the conversions of the stage: the identified columns each one assigns
\* and the label it appends when it returns
Conversions ==
    {[vars |-> {variables.turbidity}, label |-> TurbidityLabel],
     [vars |-> {variables.chlorophyll}, label |-> ChlorophyllLabel],
     [vars |-> {variables.conductivity}, label |-> ConductivityLabel],
     [vars |-> {variables.latitude, variables.longitude},
      label |-> CoordinatesLabel],
     [vars |-> IF OxygenVariablesPresent THEN {variables.oxygen} ELSE {},
      label |-> OxygenLabel]}

\* the conversions that were attempted and raised in this run; read once
\* the stage is past its conversion blocks
RaisedConversions ==
    {c \in Conversions : /\ c.vars \ {None} # {}
                         /\ ~Listed(c.label, conversions_applied)}

IsDecimalOfPacked(new, old, negated) ==
    LET degrees == old.v \div (100 * old.d)
        n == 60 * degrees * old.d + (old.v - 100 * degrees * old.d)
    IN  /\ new.k = "num"
        /\ new.v * 60 * old.d = new.d * (IF negated THEN 0 - Abs(n) ELSE n)

Packed(c) == c.k = "num" /\ c.v # 0

IsSumTimes(a, b, x, y, n, m) ==
    (a.v * b.d + b.v * a.d) * (x.d * y.d) * m
        = n * (x.v * y.d + y.v * x.d) * (a.d * b.d)

C18_RenameFrame ==
    files.renamed # <<>> =>
        LET out == files.renamed[1]
        IN  /\ Len(out.cols) = Len(df.cols)
            /\ \A i \in 1..Len(df.cols) :
                  /\ df.cols[i] \in DOMAIN variable_mapping
                     => out.cols[i] = variable_mapping[df.cols[i]]
                  /\ df.cols[i] \notin DOMAIN variable_mapping
                     => out.cols[i] = df.cols[i]
            /\ Len(out.rows) = Len(df.rows)
            /\ \A r \in 1..Len(df.rows) : out.rows[r] = df.rows[r]

C18_Witness ==
    /\ files.renamed # <<>>
    /\ \E i, j \in 1..Len(df.cols) :
          /\ df.cols[i] = "source_file"
          /\ files.renamed[1].cols[i] = "source_file"
          /\ df.cols[j] = "LEGATO_CODA_DO"
          /\ files.renamed[1].cols[j] = "DOXY"

(***************************************************************************)
(* C19: absent native columns are never fatal for the renaming stage:      *)
(* whatever set of native columns is absent, the stage does not stop       *)
(* because of them.  Refuted as stated: with every native column absent    *)
(* the stage returns before renaming and writes nothing.                   *)
(***************************************************************************)
C19_AbsentColumnsNeverFatal == pc # "r_no_variables"

(***************************************************************************)
(* C19, amended: the renaming stage stops for absent columns only when     *)
(* every native column of the mapping is absent; with at least one present *)
(* it goes on whatever the absent ones are, and the file it writes has the *)
(* present native columns under their standard names.                      *)
(***************************************************************************)
C19_FatalOnlyIfNonePresent ==
    /\ pc = "r_no_variables" => present_vars(df) = {}
    /\ pc \in {"r_apply", "r_save", "r_done"} => present_vars(df) # {}
    /\ pc = "r_done" =>
          /\ files.renamed # <<>>
          /\ \A i \in 1..Len(df.cols) :
                df.cols[i] \in present_vars(df) =>
                    files.renamed[1].cols[i] = variable_mapping[df.cols[i]]

C19_Witness ==
    /\ pc = "r_done"
    /\ files.renamed # <<>>
    /\ Cardinality(missing_vars(df)) > 1
    /\ present_vars(df) # {}

(***************************************************************************)
(* C12: the drivers start the four steps in their order, and a step is     *)
(* started only if every earlier step was run and completed; after the     *)
(* first step that does not complete, no later step is started.  Refuted:  *)
(* execute_pipeline skips a step whose script is missing and goes on, and  *)
(* both drivers take a script that returned early for a completed one.     *)
(***************************************************************************)
C12_StartedOnlyAfterEarlierCompleted ==
    /\ \A k \in 1..(Len(started) - 1) : started[k] < started[k + 1]
    /\ \A k \in DOMAIN started :
          \A earlier \in 1..(started[k] - 1) : outcome[earlier] = "completed"

(***************************************************************************)
(* C13: input files are processed in ascending order of the number their   *)
(* name ends with, never in the order of the names: in step 1 and in the   *)
(* merge, a file with a smaller number is processed before one with a      *)
(* larger number (1, 2, 10 and not 1, 10, 2).                              *)
(***************************************************************************)
\* in the list of names, a name with the smaller number comes first
NumericOrder(names) ==
    \A p, q \in DOMAIN names : int(names[p]) < int(names[q]) => p < q

C13_ProcessedInNumericOrder ==
    /\ NumericOrder(filtered_files)
    /\ NumericOrder([k \in DOMAIN conversion_log |-> conversion_log[k].raw_file])
    /\ NumericOrder(file_paths)
    /\ NumericOrder([k \in DOMAIN merge_log |-> merge_log[k].file])

C13_Witness ==
    /\ \E p, q \in DOMAIN conversion_log :
          /\ p < q
          /\ conversion_log[p].raw_file = <<2>>
          /\ conversion_log[q].raw_file = <<1, 0>>
    /\ \E p, q \in DOMAIN merge_log :
          /\ p < q
          /\ merge_log[p].file = <<0, 0, 2>>
          /\ merge_log[q].file = <<0, 1, 0>>

(***************************************************************************)
(* C14: the merged table keeps the file order and the row order of every   *)
(* file, whatever the timestamps: the rows of a file with a smaller number *)
(* precede those of a file with a larger one, and two rows of one file     *)
(* keep their relative order.  Refuted as stated: the merge sorts the      *)
(* concatenated table by its time column.                                  *)
(***************************************************************************)
MergedRows == merged_file[1].rows

\* row a stands before row b in the concatenation in file order
ConcatBefore(a, b) ==
    \/ a.file_number < b.file_number
    \/ a.file_number = b.file_number /\ a.row < b.row

C14_FileAndRowOrderPreserved ==
    merged_file # <<>> =>
        \A p, q \in DOMAIN MergedRows :
            p < q => ConcatBefore(MergedRows[p], MergedRows[q])

(***************************************************************************)
(* C14, amended: the merged table holds the rows of the concatenation in   *)
(* file order, each once.  Without a time column they are in that order.   *)
(* With a time column they are in ascending order of the timestamp, the    *)
(* rows without a timestamp last and in concatenation order; file and row  *)
(* order are kept only as far as the timestamps follow them.               *)
(***************************************************************************)
TimeOf(t, p) == t.rows[p].cells[ColIndex(t, sort_column(t))]

C14_SortedByTimestamp ==
    merged_file # <<>> =>
        LET t == merged_file[1]
            c == concat(all_dataframes)
        IN  /\ Len(t.rows) = Len(c.rows)
            /\ \A r \in DOMAIN c.rows : \E p \in DOMAIN t.rows : t.rows[p] = c.rows[r]
            /\ \A p, q \in DOMAIN t.rows :
                  p < q =>
                      IF sort_column(t) = None
                      THEN ConcatBefore(t.rows[p], t.rows[q])
                      ELSE /\ notna(TimeOf(t, p)) /\ notna(TimeOf(t, q))
                              => TimeOf(t, p).v <= TimeOf(t, q).v
                           /\ ~notna(TimeOf(t, p)) => ~notna(TimeOf(t, q))
                           /\ ~notna(TimeOf(t, p))
                              => ConcatBefore(t.rows[p], t.rows[q])

C14_Witness ==
    /\ merged_file # <<>>
    /\ sort_column(merged_file[1]) # None
    /\ \E p, q \in DOMAIN MergedRows :
          /\ p < q
          /\ MergedRows[p].file_number > MergedRows[q].file_number
          /\ TimeOf(merged_file[1], p).v < TimeOf(merged_file[1], q).v

(***************************************************************************)
(* C15: the merged table holds every row of every per-file CSV step 1      *)
(* wrote: its row count is the sum of their row counts, and no readable,   *)
(* non-empty per-file CSV is left out.  Refuted: the merge drops every CSV *)
(* smaller than 0.01 MB before reading it.                                 *)
(***************************************************************************)
\* the per-file CSVs that pd.read_csv did not fail on
ReadableCsvs ==
    {f \in DOMAIN csv_separati :
        \A k \in DOMAIN merge_log :
            merge_log[k].file = f => merge_log[k].status # "error"}

RECURSIVE RowTotal(_)
RowTotal(S) ==
    IF S = {} THEN 0
    ELSE LET f == CHOOSE x \in S : TRUE
         IN  Len(csv_separati[f].rows) + RowTotal(S \ {f})

C15_EveryRowMerged ==
    i_pc = "m_done" =>
        /\ Len(MergedRows) = RowTotal(ReadableCsvs)
        /\ \A f \in ReadableCsvs :
              Len(csv_separati[f].rows) > 0 =>
                  \E p \in DOMAIN MergedRows : MergedRows[p].source_file = f

InUnitStage ==
    pc \in {"u_backup", "u_turbidity", "u_chlorophyll", "u_conductivity",
            "u_coordinates", "u_oxygen", "u_save", "u_metadata", "u_summary",
            "u_done"}

\* the identified columns a conversion of the stage may assign
RescaledColumns ==
    {variables.turbidity, variables.conductivity, variables.oxygen} \ {None}

\* table t has the header and the row count of the loaded table, and the
\* loaded values in every column outside RescaledColumns
FrameOfLoaded(t) ==
    /\ t.cols = loaded.cols
    /\ Len(t.rows) = Len(loaded.rows)
    /\ \A r \in 1..Len(t.rows) : \A i \in 1..Len(t.cols) :
          t.cols[i] \notin RescaledColumns => t.rows[r][i] = loaded.rows[r][i]

C22_OnlyConvertedColumnsChange ==
    /\ InUnitStage => FrameOfLoaded(df)
    /\ loaded # NoTable /\ files.units_converted # <<>> =>
          FrameOfLoaded(files.units_converted[1])
    /\ loaded # NoTable => FrameOfLoaded(files.merged[1])

\* a run that rescaled a value and saved a table holding a chlorophyll value
C22_Witness ==
    /\ pc = "u_done"
    /\ variables.chlorophyll # None
    /\ \E r \in Rows : Cell(df, r, variables.chlorophyll).k = "num"
    /\ df # loaded
    /\ files.units_converted = <<df>>

(***************************************************************************)
(* C30: the backup of the loaded table is written before any conversion    *)
(* is applied and before any output is written; if the backup cannot be    *)
(* written, no conversion is applied and neither the timestamped output    *)
(* file nor the original file is written.                                  *)
(***************************************************************************)
C30_BackupBeforeConversionsAndOutput ==
    /\ pc \in {"u_turbidity", "u_chlorophyll", "u_conductivity",
               "u_coordinates", "u_oxygen", "u_save", "u_metadata",
               "u_summary", "u_done"} => files.backup = <<loaded>>
    /\ files.backup = <<>> =>
          /\ conversions_applied = <<>>
          /\ files.units_converted = <<>>
          /\ files.metadata = <<>>
          /\ loaded # NoTable => files.merged = <<loaded>>
          /\ InUnitStage \/ pc = "u_aborted" => df = loaded
    /\ files.backup # <<>> => files.backup = <<loaded>>

\* the backup could not be written and the stage has returned
C30_Witness ==
    /\ pc = "u_aborted"
    /\ loaded # NoTable
    /\ files.backup = <<>>
    /\ variables.turbidity # None
    /\ \E r \in Rows : Cell(loaded, r, variables.turbidity).k = "num"

(***************************************************************************)
(* C27: run_script reports a stage as successful only if the stage         *)
(* completed its work and produced its output; a stage that aborts         *)
(* internally is reported as failed and the pipeline result is a failure.  *)
(* Refuted: run_script looks at the return code only, and a stage that     *)
(* returns early from its function exits with code 0.                      *)
(***************************************************************************)
\* the steps run_script returned True for
ReportedSuccessful ==
    {started[k] : k \in {j \in DOMAIN started :
                            j < Len(started) \/ d_i > started[j]}}

C27_SuccessOnlyIfCompleted ==
    /\ \A step \in ReportedSuccessful : outcome[step] = "completed"
    /\ success_count = Cardinality({step \in Steps : outcome[step] = "completed"})
    /\ d_pc = "d_success" => \A step \in Steps : outcome[step] = "completed"

(***************************************************************************)
(* C21: an unreadable or unparsable input file is fatal for that file      *)
(* only: the ingestion loop and the merge loop skip it and still process   *)
(* every remaining file in order, and the end-of-run report counts it as   *)
(* not processed.  Refuted for the report of the merge: its list of        *)
(* processed source files is the first successful_files entries of         *)
(* file_paths, whichever files were skipped.                               *)
(***************************************************************************)
\* the files of the merge loop with the given status, in loop order
WithStatus(status) ==
    LET hits == {k \in DOMAIN merge_log : merge_log[k].status = status}
    IN  [j \in 1..Cardinality(hits) |->
            merge_log[CHOOSE k \in hits :
                         Cardinality({h \in hits : h <= k}) = j].file]

\* both loops go through every file in order, and a file that could not be
\* read leaves no table behind
C21_LoopsSkipAndGoOn ==
    /\ i_pc \in {"s1_nothing", "s1_done"} =>
          /\ i_idx = Len(filtered_files) + 1
          /\ \A k \in DOMAIN conversion_log :
                raw[conversion_log[k].raw_file].readable
    /\ i_pc = "m_loop" =>
          /\ Len(merge_log) = i_idx - 1
          /\ \A k \in DOMAIN merge_log : merge_log[k].file = file_paths[k]
          /\ Len(all_dataframes) = Len(WithStatus("read"))
    /\ i_pc = "m_done" => Len(merge_log) = Len(file_paths)

C21_SkippedFileNotReportedProcessed ==
    /\ C21_LoopsSkipAndGoOn
    /\ merge_metadata # <<>> =>
          /\ merge_metadata[1].processed = Len(WithStatus("read"))
          /\ merge_metadata[1].sources = WithStatus("read")

(***************************************************************************)
(* C29: in convert_raw_to_separate_csv no two distinct raw files are       *)
(* written to the same output path, and the number of CSV files present    *)
(* after the run equals the number of successful conversions the run       *)
(* reports.  Refuted: the output name is made of the number alone, and     *)
(* two raw files whose names give the same number share it.                *)
(***************************************************************************)
C29_OneOutputPathPerRawFile ==
    /\ \A p, q \in DOMAIN conversion_log :
          conversion_log[p].raw_file # conversion_log[q].raw_file =>
              conversion_log[p].csv_file # conversion_log[q].csv_file
    /\ i_pc \in {"s1_nothing", "s1_done"} =>
          Cardinality(DOMAIN csv_separati) = Len(conversion_log)

(***************************************************************************)
(* C26: convert_raw_to_csv sorts the raw files numerically by their        *)
(* sequence number (the key of sea074.67.gli.sub.123.pld1.raw.* is 123)    *)
(* and processes and concatenates them in ascending sequence order.        *)
(* Refuted: the key is the first all-digit part of the name, the mission   *)
(* number 67.                                                              *)
(***************************************************************************)
\* the sequence number of a name sea074.<mission>.gli.sub.<seq>.pld1.raw.*
SequenceNumber(name) == int(name[5])

C26_SortedBySequenceNumber ==
    /\ \A k \in DOMAIN l_files :
          first_digit_part(l_files[k]) = SequenceNumber(l_files[k])
    /\ \A p, q \in DOMAIN l_files :
          p < q => SequenceNumber(l_files[p]) <= SequenceNumber(l_files[q])
    /\ combined_data # <<>> =>
          \A p, q \in DOMAIN combined_data[1].rows :
             p < q => SequenceNumber(combined_data[1].rows[p].source_file)
                         <= SequenceNumber(combined_data[1].rows[q].source_file)

(***************************************************************************)
(* C23: already-processed files are excluded from the selection, so no     *)
(* data is processed twice: after any sequence of runs of                  *)
(* convert_all_units_csv in one working directory, the unit conversions    *)
(* were applied at most once to the values of every file.  Refuted: the    *)
(* run rewrites the file it selected with the converted table, and the     *)
(* name of that file holds no excluded keyword.                            *)
(***************************************************************************)
C23_ConvertedAtMostOnce ==
    /\ \A file \in DOMAIN cwd : cwd[file].n <= 1
    /\ s_pc = "u_selected" => cwd[csv_file[1]].n = 0

(***************************************************************************)
(* C24: the selection of the input honours the priority of the files: the  *)
(* unit-conversion step selects a 'merged' and 'complete' file whenever    *)
(* one is among the valid candidates, and the renaming step a              *)
(* 'units_converted' file whenever one is, whatever the modification       *)
(* times of the other candidates.  Refuted: the list is sorted by          *)
(* modification time after the priority files were put first.              *)
(***************************************************************************)
C24_PriorityFileSelected ==
    /\ s_pc = "u_selected" /\ merged_files # {} => csv_file[1] \in merged_files
    /\ s_pc = "r_selected" /\ units_converted_files # {} =>
          csv_file[1] \in units_converted_files

(***************************************************************************)
(* C25: in a run of the pipeline each script selects the output the        *)
(* previous step wrote: the renaming step reads the timestamped            *)
(* '_units_converted_' file that the unit-conversion step of the same run  *)
(* wrote.  Refuted: the unit-conversion step rewrites its input file after *)
(* the timestamped file, and the renaming step takes the most recent.      *)
(***************************************************************************)
C25_RenameReadsUnitsOutput ==
    s_pc = "r_selected" /\ output_file # <<>> => csv_file = output_file

(***************************************************************************)
(* C28: summarize_pipeline reports step 3 as completed once                *)
(* convert_all_units_csv has written its output file, and step 4 once      *)
(* rename_variables_csv has written its.  Refuted: its glob patterns end   *)
(* with '_units_converted.csv' and '_units_converted_renamed.csv', and the *)
(* two scripts end the names of their files with a timestamp.              *)
(***************************************************************************)
\* the files in the directory that the script wrote as its output file
OutputsOf(script, keyword) ==
    {file \in DOMAIN cwd : cwd[file].by = script /\ InName(keyword, file)}

C28_WrittenOutputReportedCompleted ==
    s_pc = "summarized" =>
        /\ OutputsOf("units", "units_converted") # {} => stato_passi[1].passo3
        /\ OutputsOf("rename", "renamed") # {} => stato_passi[1].passo4

====
